---------------------------- MODULE Spec2Model ----------------------------
(***************************************************************************)
(* A model of the bibliometric dashboards (src/app.py, src/step_app.py):   *)
(* the affiliation parser, the collaboration aggregators, the figures      *)
(* they hand to the layout and the callbacks, and of the scripts that fill *)
(* the table khcc_authors (src/extract_khcc_authors.py,                    *)
(* src/testing/database.py).                                               *)
(*                                                                         *)
(* Python strings that the code searches, splits and trims are sequences   *)
(* of tokens: a word, a blank " " or a comma "," each.  Python values that *)
(* may be None are records with a kind field.                              *)
(***************************************************************************)
EXTENDS Integers, Sequences, FiniteSets, TLC

VARIABLES
    papers_df,        \* the publication table loaded at start-up
    call,             \* the function of the dashboard that ran last
    ret,              \* what that call computed and returned
    rerun,            \* whether that call repeated the call before it
    raw_affiliation,  \* argument of extract_khcc_department
    dept_name,        \* argument of standardize_department_name
    dept_out,         \* result of extract_khcc_department
    std_out,          \* result of standardize_department_name
    std_again,        \* result of standardizing a returned label once more
    dpc,              \* which department function has been applied
    counter,          \* a frequency Counter, <<entity, count>> in insertion order
    selection,        \* result of a top-N selection on counter
    spc,              \* which selection has been applied
    variant,          \* the program that is started
    environ,          \* the process environment read at start-up
    source,           \* the data source: whether it answers, and its rows
    phase,            \* how far start-up has come
    loaded,           \* what the record loader gave its caller
    layout,           \* the figures placed in app.layout at start-up
    inflight,         \* callback invocations received and not yet returned
    khcc_authors_table, \* the table khcc_authors of the database, as committed
    runs,             \* how often the extraction script has run
    paper_modal       \* the property is_open of the component paper-modal

vars == <<papers_df, call, ret, rerun, raw_affiliation, dept_name, dept_out,
          std_out, std_again, dpc, counter, selection, spc, variant, environ,
          source, phase, loaded, layout, inflight,
          khcc_authors_table, runs, paper_modal>>

dashVars == <<papers_df, call, ret, rerun>>
deptVars == <<raw_affiliation, dept_name, dept_out, std_out, std_again, dpc>>
topVars == <<counter, selection, spc>>
serveVars == <<variant, environ, source, phase, loaded, layout, inflight>>
scriptVars == <<khcc_authors_table, runs>>
pageVars == <<paper_modal>>

(***************************************************************************)
(* Strings                                                                 *)
(***************************************************************************)
SP == " "
COMMA == ","

\* Python's `p in s` for strings.
StrContains(s, p) ==
    \E i \in 1..(Len(s) - Len(p) + 1) : SubSeq(s, i, i + Len(p) - 1) = p

\* Index of the first occurrence of p in s, 0 when there is none (p non-empty).
StrFind(s, p) ==
    IF StrContains(s, p)
    THEN CHOOSE i \in 1..(Len(s) - Len(p) + 1) :
            /\ SubSeq(s, i, i + Len(p) - 1) = p
            /\ \A j \in 1..(i - 1) : SubSeq(s, j, j + Len(p) - 1) # p
    ELSE 0

\* Python's s.split(p): the parts of s between the occurrences of p.
RECURSIVE StrSplit(_, _)
StrSplit(s, p) ==
    LET i == StrFind(s, p)
    IN  IF i = 0 THEN <<s>>
        ELSE <<SubSeq(s, 1, i - 1)>> \o StrSplit(SubSeq(s, i + Len(p), Len(s)), p)

\* Python's s.strip(): leading and trailing blanks removed.
RECURSIVE StrLStrip(_)
StrLStrip(s) ==
    IF s # <<>> /\ Head(s) = SP THEN StrLStrip(Tail(s)) ELSE s

RECURSIVE StrRStrip(_)
StrRStrip(s) ==
    IF s # <<>> /\ s[Len(s)] = SP THEN StrRStrip(SubSeq(s, 1, Len(s) - 1)) ELSE s

StrStrip(s) == StrRStrip(StrLStrip(s))

Range(seq) == { seq[k] : k \in 1..Len(seq) }

\* Concatenation of a sequence of strings.
RECURSIVE StrJoin(_)
StrJoin(ss) == IF ss = <<>> THEN <<>> ELSE Head(ss) \o StrJoin(Tail(ss))

\* Optional strings: None, or a str.
None == [kind |-> "none", s |-> <<>>]
Str(s) == [kind |-> "str", s |-> s]
\* A value that is not a str (a float NaN, a number).
NotAStr == [kind |-> "other", s |-> <<>>]

\* "King Hussein Cancer Center" and "King Hussein", as they occur in raw
\* affiliation strings.
KHCC_TEXT == <<"King", SP, "Hussein", SP, "Cancer", SP, "Center">>
KING_HUSSEIN == <<"King", SP, "Hussein">>

(***************************************************************************)
(* Department labels (src/app.py:800-848)                                  *)
(***************************************************************************)
INTERNAL_MEDICINE == <<"Department", SP, "of", SP, "Internal", SP, "Medicine">>
DIAGNOSTIC_RADIOLOGY == <<"Department", SP, "of", SP, "Diagnostic", SP, "Radiology">>
PEDIATRICS == <<"Department", SP, "of", SP, "Pediatrics">>

\* any(name in dept_name for name in names)
AnyIn(names, s) == \E k \in 1..Len(names) : StrContains(s, names[k])

\* The mutant of standardize_department_name: the radiology label names
\* nuclear medicine too, a keyword of the first rule.
standardize_department_name_relabel(d) ==
    IF d.kind = "none" \/ d.s = <<>> THEN None
    ELSE IF AnyIn(<< <<"Medical", SP, "Oncology">>, <<"Internal", SP, "Medicine">>,
                     <<"Medicine">> >>, d.s)
         THEN Str(INTERNAL_MEDICINE)
    ELSE IF AnyIn(<< <<"Diagnostic", SP, "Radiology">>, <<"Radiology">> >>, d.s)
         THEN Str(<<"Department", SP, "of", SP, "Radiology", SP, "and", SP,
                    "Nuclear", SP, "Medicine">>)
    ELSE IF AnyIn(<< <<"Pediatrics">>, <<"Pediatric", SP, "Oncology">> >>, d.s)
         THEN Str(PEDIATRICS)
    ELSE d

standardize_department_name(d) ==
    IF d.kind = "none" \/ d.s = <<>> THEN None
    ELSE IF AnyIn(<< <<"Medical", SP, "Oncology">>, <<"Internal", SP, "Medicine">>,
                     <<"Medicine">> >>, d.s)
         THEN Str(INTERNAL_MEDICINE)
    ELSE IF AnyIn(<< <<"Diagnostic", SP, "Radiology">>, <<"Radiology">> >>, d.s)
         THEN Str(DIAGNOSTIC_RADIOLOGY)
    ELSE IF AnyIn(<< <<"Pediatrics">>, <<"Pediatric", SP, "Oncology">> >>, d.s)
         THEN Str(PEDIATRICS)
    ELSE d

\* The mutant of dept_patterns: "Center" accepted as an indicator too.
dept_patterns_loose ==
    << <<"Department", SP, "of">>, <<"Departments", SP, "of">>,
       <<"Division", SP, "of">>, <<"Divisions", SP, "of">>,
       <<"Section", SP, "of">>, <<"Sections", SP, "of">>, <<"Center">> >>

dept_patterns ==
    << <<"Department", SP, "of">>, <<"Departments", SP, "of">>,
       <<"Division", SP, "of">>, <<"Divisions", SP, "of">>,
       <<"Section", SP, "of">>, <<"Sections", SP, "of">> >>

\* The text after the pattern until the next comma or "King Hussein", trimmed.
dept_text_of(raw, pattern) ==
    StrStrip(StrSplit(StrSplit(StrSplit(raw, pattern)[2], <<COMMA>>)[1],
                      KING_HUSSEIN)[1])

\* The loop over dept_patterns: the first pattern that occurs in raw and is
\* followed by a non-empty text decides.
RECURSIVE try_patterns(_, _)
try_patterns(raw, patterns) ==
    IF patterns = <<>> THEN None
    ELSE LET pattern == Head(patterns)
         IN  IF StrContains(raw, pattern)
                  /\ Len(StrSplit(raw, pattern)) > 1
                  /\ dept_text_of(raw, pattern) # <<>>
             THEN standardize_department_name(
                      Str(pattern \o <<SP>> \o dept_text_of(raw, pattern)))
             ELSE try_patterns(raw, Tail(patterns))

extract_khcc_department(raw) ==
    IF raw.kind # "str" THEN None
    ELSE IF ~StrContains(raw.s, KHCC_TEXT) THEN None
    ELSE try_patterns(raw.s, dept_patterns)

(***************************************************************************)
(* The department functions on bounded inputs                              *)
(***************************************************************************)
MaxChunks == 3

Chunks ==
    { <<"Department", SP, "of">>, <<"Departments", SP, "of">>,
      <<"Section", SP, "of">>, <<SP>>, <<COMMA>>, KHCC_TEXT,
      <<SP, "Medicine">>, <<SP, "Radiology">>, <<SP, "Pediatric", SP, "Oncology">>,
      <<SP, "Surgery">> }

RECURSIVE ChunkSeqs(_)
ChunkSeqs(n) ==
    IF n = 0 THEN { <<>> }
    ELSE LET shorter == ChunkSeqs(n - 1)
         IN  shorter \cup { Append(cs, c) : cs \in shorter, c \in Chunks }

RawStrings == { StrJoin(cs) : cs \in ChunkSeqs(MaxChunks) }

DeptInit ==
    /\ raw_affiliation \in {None, NotAStr} \cup { Str(s) : s \in RawStrings }
    /\ dept_name = IF raw_affiliation.kind = "str" THEN raw_affiliation ELSE None
    /\ dept_out = None
    /\ std_out = None
    /\ std_again = None
    /\ dpc = "input"

CallExtractDepartment ==
    /\ dpc = "input"
    /\ dept_out' = extract_khcc_department(raw_affiliation)
    /\ dpc' = "extracted"
    /\ UNCHANGED <<raw_affiliation, dept_name, std_out, std_again, dashVars, topVars, serveVars, scriptVars, pageVars>>

CallStandardize ==
    /\ dpc = "input"
    /\ std_out' = standardize_department_name(dept_name)
    /\ dpc' = "standardized"
    /\ UNCHANGED <<raw_affiliation, dept_name, dept_out, std_again, dashVars, topVars, serveVars, scriptVars, pageVars>>

\* The label of an extracted or standardized department is standardized again.
CallStandardizeAgain ==
    /\ dpc \in {"extracted", "standardized"}
    /\ std_again' = standardize_department_name(
                        IF dpc = "extracted" THEN dept_out ELSE std_out)
    /\ dpc' = IF dpc = "extracted" THEN "extracted_again" ELSE "standardized_again"
    /\ UNCHANGED <<raw_affiliation, dept_name, dept_out, std_out, dashVars, topVars, serveVars, scriptVars, pageVars>>

DeptNext == CallExtractDepartment \/ CallStandardize \/ CallStandardizeAgain

\* Whether a raw affiliation holds one of the six indicator phrases.
HasIndicator(s) ==
    \E p \in { <<"Department", SP, "of">>, <<"Departments", SP, "of">>,
               <<"Division", SP, "of">>, <<"Divisions", SP, "of">>,
               <<"Section", SP, "of">>, <<"Sections", SP, "of">> } :
        StrContains(s, p)

\* C4: an input of extract_khcc_department that is no string, or a string
\* that holds none of the department-indicator phrases, gives None.
C4_NoIndicatorNoDepartment ==
    (dpc = "extracted"
       /\ (raw_affiliation.kind # "str" \/ ~HasIndicator(raw_affiliation.s)))
    => dept_out = None

\* C4 witness: a home affiliation that names a department keyword but holds
\* no indicator phrase has gone through the pattern loop.
C4_Witness ==
    /\ dpc = "extracted"
    /\ raw_affiliation.kind = "str"
    /\ StrContains(raw_affiliation.s, KHCC_TEXT)
    /\ StrContains(raw_affiliation.s, <<"Medicine">>)
    /\ ~HasIndicator(raw_affiliation.s)
    /\ dept_out = None

\* C5: standardize_department_name is idempotent, on arbitrary names and on
\* the labels extract_khcc_department returns; the three canonical labels
\* are fixed points.
C5_StandardizeIdempotent ==
    /\ dpc = "standardized_again" => std_again = std_out
    /\ dpc = "extracted_again" => std_again = dept_out
    /\ dpc \in {"standardized_again", "extracted_again"}
          => \A c \in {INTERNAL_MEDICINE, DIAGNOSTIC_RADIOLOGY, PEDIATRICS} :
                standardize_department_name(Str(c)) = Str(c)

\* C5 witness: a name was rewritten to a canonical label by the first
\* application and the second application has run.
C5_Witness ==
    /\ dpc = "standardized_again"
    /\ dept_name.kind = "str"
    /\ std_out # dept_name
    /\ std_out = Str(DIAGNOSTIC_RADIOLOGY)
    /\ std_again = std_out


(***************************************************************************)
(* Top-N selections                                                        *)
(*                                                                         *)
(* A Counter, a dict or a two-column DataFrame is a sequence of            *)
(* <<entity, count>> in insertion (row) order.                             *)
(***************************************************************************)
N_KHCC_AUTHORS == 10
N_EXTERNAL_AUTHORS == 10
N_INSTITUTIONS == 10
N_COUNTRIES == 10
N_DEPARTMENTS == 10
N_FREQUENCY == 20
STEP_N_DEPARTMENTS == 15
STEP_N_INSTITUTIONS == 20
STEP_N_COUNTRIES == 20

Min(a, b) == IF a < b THEN a ELSE b
Head_n(seq, n) == SubSeq(seq, 1, Min(n, Len(seq)))
Tail_n(seq, n) == SubSeq(seq, Len(seq) - Min(n, Len(seq)) + 1, Len(seq))

\* x put behind every item of the descending sequence whose count is >= its own.
RECURSIVE InsertDesc(_, _)
InsertDesc(sorted, x) ==
    IF sorted = <<>> THEN <<x>>
    ELSE IF Head(sorted)[2] >= x[2] THEN <<Head(sorted)>> \o InsertDesc(Tail(sorted), x)
    ELSE <<x>> \o sorted

\* sorted(items, key=count, reverse=True): stable, ties in insertion order.
RECURSIVE SortDesc(_)
SortDesc(items) ==
    IF items = <<>> THEN <<>>
    ELSE InsertDesc(SortDesc(SubSeq(items, 1, Len(items) - 1)), items[Len(items)])

\* x put behind every item of the ascending sequence whose count is <= its own.
RECURSIVE InsertAsc(_, _)
InsertAsc(sorted, x) ==
    IF sorted = <<>> THEN <<x>>
    ELSE IF Head(sorted)[2] <= x[2] THEN <<Head(sorted)>> \o InsertAsc(Tail(sorted), x)
    ELSE <<x>> \o sorted

\* DataFrame.sort_values('Count', ascending=True), ties kept in row order.
RECURSIVE SortAsc(_)
SortAsc(items) ==
    IF items = <<>> THEN <<>>
    ELSE InsertAsc(SortAsc(SubSeq(items, 1, Len(items) - 1)), items[Len(items)])

\* The mutant of most_common: the cutoff is dropped.
most_common_all(c, n) == SortDesc(c)

\* Counter.most_common(n)
most_common(c, n) == Head_n(SortDesc(c), n)

\* DataFrame.nlargest(n, 'Count'), keep='first'
nlargest(df, n) == Head_n(SortDesc(df), n)

\* The mutant of sort_values_tail: head(n) of the ascending frame.
sort_values_head(df, n) == Head_n(SortAsc(df), n)

\* df.sort_values('Count', ascending=True).tail(n)
sort_values_tail(df, n) == Tail_n(SortAsc(df), n)

\* sorted(d.items(), key=lambda x: x[1], reverse=True)[:n]
sorted_reverse_head(items, n) == Head_n(SortDesc(items), n)

\* The entities of a selection, in its order.
Keys(items) == [k \in 1..Len(items) |-> items[k][1]]

MaxEntities == 21
MaxFrequent == 2

TopInit ==
    /\ counter = <<>>
    /\ selection = <<>>
    /\ spc = "counting"

\* One more entity enters the Counter, seen once or twice.
CountEntity ==
    /\ spc = "counting"
    /\ Len(counter) < MaxEntities
    /\ \E n \in {1, 2} :
          /\ n = 2 => Cardinality({k \in 1..Len(counter) : counter[k][2] = 2}) < MaxFrequent
          /\ counter' = Append(counter, <<Len(counter) + 1, n>>)
    /\ UNCHANGED <<selection, spc, dashVars, deptVars, serveVars, scriptVars, pageVars>>

\* app.py:577, 584, 692, 701, 702
SelectMostCommon ==
    /\ spc = "counting"
    /\ selection' = most_common(counter, N_KHCC_AUTHORS)
    /\ spc' = "most_common"
    /\ UNCHANGED <<counter, dashVars, deptVars, serveVars, scriptVars, pageVars>>

\* app.py:424, 439, 454; step_app.py:563, 579, 595, 731, 761
SelectNLargest ==
    /\ spc = "counting"
    /\ selection' = nlargest(counter, N_FREQUENCY)
    /\ spc' = "nlargest"
    /\ UNCHANGED <<counter, dashVars, deptVars, serveVars, scriptVars, pageVars>>

\* app.py:901
SelectSortTail ==
    /\ spc = "counting"
    /\ selection' = sort_values_tail(counter, N_DEPARTMENTS)
    /\ spc' = "sort_tail"
    /\ UNCHANGED <<counter, dashVars, deptVars, serveVars, scriptVars, pageVars>>

\* step_app.py:838
SelectSortedHead ==
    /\ spc = "counting"
    /\ selection' = sorted_reverse_head(counter, STEP_N_DEPARTMENTS)
    /\ spc' = "sorted_head"
    /\ UNCHANGED <<counter, dashVars, deptVars, serveVars, scriptVars, pageVars>>

TopNext ==
    \/ CountEntity
    \/ SelectMostCommon
    \/ SelectNLargest
    \/ SelectSortTail
    \/ SelectSortedHead


(***************************************************************************)
(* Publications and authorship entries                                     *)
(*                                                                         *)
(* An institution is [id, display_name, country_code], NoKey for a key the *)
(* JSON object lacks.  An authorship entry is [has_author, display_name,   *)
(* institutions, countries, raw_affiliation_strings]; an entry without the *)
(* key 'institutions', 'countries' or 'raw_affiliation_strings' is read by *)
(* every function below as one with an empty list.  A cell of the column   *)
(* authorships or topics is [kind, value]: "null" (NULL), "invalid" (text  *)
(* that json.loads rejects) or "text" (the JSON text of list value).       *)
(***************************************************************************)
NoKey == "<no key>"
KHCC_NAME == "King Hussein Cancer Center"
KHCC_ID == "https://openalex.org/I2799468983"

RECURSIVE FlatMap(_, _)
FlatMap(F(_), seq) ==
    IF seq = <<>> THEN <<>> ELSE F(Head(seq)) \o FlatMap(F, Tail(seq))

Map(F(_), seq) == [k \in 1..Len(seq) |-> F(seq[k])]
Filter(seq, Test(_)) == SelectSeq(seq, Test)
Contains(seq, x) == \E k \in 1..Len(seq) : seq[k] = x

\* for a in xs: for b in ys: out.append((a, b))
Cross(xs, ys) ==
    LET Row(a) == [k \in 1..Len(ys) |-> <<a, ys[k]>>]
    IN  FlatMap(Row, xs)

\* The items of a list once each, in the order of their first occurrence.
Dedup(seq) ==
    LET indexed == [i \in 1..Len(seq) |-> <<i, seq[i]>>]
        firsts == SelectSeq(indexed, LAMBDA p : \A j \in 1..(p[1] - 1) : seq[j] # p[2])
    IN  [k \in 1..Len(firsts) |-> firsts[k][2]]

\* Counter(items): a key per distinct item, in the order of first occurrence,
\* with the number of its occurrences.
CounterOf(items) ==
    LET keys == Dedup(items)
    IN  [k \in 1..Len(keys) |->
            <<keys[k], Cardinality({i \in 1..Len(items) : items[i] = keys[k]})>>]

\* counter[key], 0 for a key the Counter does not hold.
CountOf(c, key) ==
    IF \E k \in 1..Len(c) : c[k][1] = key
    THEN (CHOOSE pair \in Range(c) : pair[1] = key)[2]
    ELSE 0

Reverse(seq) == [k \in 1..Len(seq) |-> seq[Len(seq) + 1 - k]]

\* The orders in which a Python set built from items may be iterated: the
\* language fixes none; two are kept.
SetOrders == {"forward", "backward"}
IterateSet(items, order) ==
    IF order = "forward" THEN Dedup(items) ELSE Reverse(Dedup(items))

\* The rows papers_df['authorships'].dropna() keeps.
dropna(column) == Filter(column, LAMBDA cell : cell.kind # "null")

\* The mutant of is_khcc_by_id: the first institution of the entry decides.
is_khcc_by_id_first(a) ==
    a.institutions # <<>> /\ a.institutions[1].id = KHCC_ID

\* inst.get('id') == KHCC_ID for some institution of the entry.
is_khcc_by_id(a) ==
    \E k \in 1..Len(a.institutions) : a.institutions[k].id = KHCC_ID

\* inst.get('display_name') == KHCC_NAME for some institution of the entry.
is_khcc_by_get_name(a) ==
    \E k \in 1..Len(a.institutions) : a.institutions[k].display_name = KHCC_NAME

\* The scan `for inst in a['institutions']: if inst['display_name'] == KHCC_NAME:
\* ...; break`: the index of the institution that ends it, 0 when it runs through.
\* It ends on the home institution, or on one without a display name (KeyError).
name_scan_end(a) ==
    IF \E k \in 1..Len(a.institutions) :
           a.institutions[k].display_name \in {KHCC_NAME, NoKey}
    THEN CHOOSE k \in 1..Len(a.institutions) :
            /\ a.institutions[k].display_name \in {KHCC_NAME, NoKey}
            /\ \A j \in 1..(k - 1) : a.institutions[j].display_name \notin {KHCC_NAME, NoKey}
    ELSE 0

name_scan_raises(a) ==
    name_scan_end(a) # 0 /\ a.institutions[name_scan_end(a)].display_name = NoKey

is_khcc_by_name(a) ==
    name_scan_end(a) # 0 /\ a.institutions[name_scan_end(a)].display_name = KHCC_NAME


(***************************************************************************)
(* The per-publication parsers of src/app.py                               *)
(***************************************************************************)
\* The display names an entry adds to `institutions` before its scan ends.
scanned_institutions(a) ==
    LET last == IF name_scan_end(a) = 0 THEN Len(a.institutions)
                ELSE name_scan_end(a) - 1
    IN  [k \in 1..last |-> a.institutions[k].display_name]

extract_institutions_and_countries(cell) ==
    IF cell.kind = "invalid" \/ \E k \in 1..Len(cell.value) : name_scan_raises(cell.value[k])
    THEN [raised |-> TRUE, institutions |-> <<>>, countries |-> <<>>]
    ELSE [raised |-> FALSE,
          institutions |-> FlatMap(scanned_institutions, cell.value),
          countries |-> FlatMap(LAMBDA a : IF is_khcc_by_name(a) THEN <<>> ELSE a.countries,
                                cell.value)]

extract_external_authors(cell) ==
    IF cell.kind = "invalid" \/ \E k \in 1..Len(cell.value) : name_scan_raises(cell.value[k])
    THEN [raised |-> TRUE, external_authors |-> <<>>]
    ELSE [raised |-> FALSE,
          external_authors |->
              Map(LAMBDA a : a.display_name,
                  Filter(cell.value, LAMBDA a : ~is_khcc_by_name(a) /\ a.has_author))]

\* The mutant of extract_khcc_and_collaborator_links: the external list takes
\* every author of the publication.
extract_khcc_and_collaborator_links_everyone(cell) ==
    IF \/ cell.kind = "invalid"
       \/ \E k \in 1..Len(cell.value) :
             \/ name_scan_raises(cell.value[k])
             \/ is_khcc_by_name(cell.value[k]) /\ ~cell.value[k].has_author
    THEN [raised |-> TRUE, links |-> <<>>]
    ELSE [raised |-> FALSE,
          links |-> Cross(Map(LAMBDA a : a.display_name,
                              Filter(cell.value, is_khcc_by_name)),
                          Map(LAMBDA a : a.display_name,
                              Filter(cell.value, LAMBDA a : a.has_author)))]

extract_khcc_and_collaborator_links(cell) ==
    IF \/ cell.kind = "invalid"
       \/ \E k \in 1..Len(cell.value) :
             \/ name_scan_raises(cell.value[k])
             \/ is_khcc_by_name(cell.value[k]) /\ ~cell.value[k].has_author
    THEN [raised |-> TRUE, links |-> <<>>]
    ELSE [raised |-> FALSE,
          links |-> Cross(Map(LAMBDA a : a.display_name,
                              Filter(cell.value, is_khcc_by_name)),
                          Map(LAMBDA a : a.display_name,
                              Filter(cell.value,
                                     LAMBDA a : ~is_khcc_by_name(a) /\ a.has_author)))]

\* extract_khcc_authors, on the decoded list: KeyError on a home entry
\* without 'author'.
extract_khcc_authors(auth) ==
    IF \E k \in 1..Len(auth) : is_khcc_by_id(auth[k]) /\ ~auth[k].has_author
    THEN [raised |-> TRUE, khcc_authors |-> <<>>]
    ELSE [raised |-> FALSE,
          khcc_authors |-> Map(LAMBDA a : a.display_name, Filter(auth, is_khcc_by_id))]

\* The institutions an entry contributes in the second pass of
\* extract_khcc_institution_country_links.
external_institutions_of(a) == Filter(a.institutions, LAMBDA inst : inst.id # KHCC_ID)

extract_khcc_institution_country_links(cell) ==
    LET auth == cell.value
        khcc_authors == Map(LAMBDA a : a.display_name, Filter(auth, is_khcc_by_id))
        others == Filter(auth, LAMBDA a : ~Contains(khcc_authors, a.display_name))
        InstLinks(a) ==
            FlatMap(LAMBDA inst : [k \in 1..Len(khcc_authors) |->
                                      <<khcc_authors[k], inst.display_name>>],
                    external_institutions_of(a))
        CountryLinks(a) ==
            FlatMap(LAMBDA country : [k \in 1..Len(khcc_authors) |->
                                         <<khcc_authors[k], country>>],
                    a.countries)
    IN  IF \/ cell.kind = "invalid"
           \/ \E k \in 1..Len(auth) : ~auth[k].has_author
           \/ /\ khcc_authors # <<>>
              /\ \E k \in 1..Len(others) :
                    \E inst \in Range(external_institutions_of(others[k])) :
                        inst.display_name = NoKey
        THEN [raised |-> TRUE, khcc_authors |-> <<>>,
              external_institutions |-> <<>>, external_countries |-> <<>>]
        ELSE [raised |-> FALSE, khcc_authors |-> khcc_authors,
              external_institutions |-> FlatMap(InstLinks, others),
              external_countries |-> FlatMap(CountryLinks, others)]


(***************************************************************************)
(* String order, for sorted() and groupby                                  *)
(***************************************************************************)
\* Every token and name of the model, in Python's string order.
LexOrder ==
    <<" ", ",", "Amman", "C01", "C02", "C03", "C04", "C05", "C06", "C07", "C08",
      "C09", "C10", "C11", "C12", "C13", "Cancer", "Center", "D01", "D02", "D03",
      "D04", "D05", "D06", "D07", "D08", "D09", "D10", "D11", "D12", "D13", "DE",
      "Department", "Departments", "Diagnostic", "Division", "Divisions",
      "Foreign U", "Hussein", "Internal", "JO", "King", "King Hussein Cancer Center",
      "Medical", "Medicine", "Nuclear", "Oncology", "Other U", "Pediatric",
      "Pediatrics", "Radiology", "Section", "Sections", "Surgery", "T1", "T2", "T3",
      "U01", "U02", "U03", "U04", "U05", "U06", "U07", "U08", "U09", "U10", "U11",
      "U12", "U13", "US", "and", "of">>

Rank(x) == CHOOSE k \in 1..Len(LexOrder) : LexOrder[k] = x

\* a < b for two names.
NameLess(a, b) == Rank(a) < Rank(b)

\* s < t for two strings.
RECURSIVE StrLess(_, _)
StrLess(s, t) ==
    IF t = <<>> THEN FALSE
    ELSE IF s = <<>> THEN TRUE
    ELSE IF Head(s) = Head(t) THEN StrLess(Tail(s), Tail(t))
    ELSE Rank(Head(s)) < Rank(Head(t))

(***************************************************************************)
(* create_sankey_diagram (src/app.py:541-633)                              *)
(***************************************************************************)
\* node_indices[name] of {node: idx for idx, node in enumerate(nodes)}: the
\* last position of the name, counted from 0; -1 for a name that is no node.
NodeIndex(nodes, name) ==
    IF Contains(nodes, name)
    THEN (CHOOSE k \in 1..Len(nodes) :
             nodes[k] = name /\ \A j \in (k + 1)..Len(nodes) : nodes[j] # name) - 1
    ELSE -1

\* The mutant of link_retained: only the source side is tested.
link_retained_source_only(a, b, top_a, top_b) == Contains(top_a, a)

\* `if a in top_a and b in top_b`, the test that keeps a link.
link_retained(a, b, top_a, top_b) == Contains(top_a, a) /\ Contains(top_b, b)

\* The links of a flow diagram for the counted pairs kept by link_retained.
LinksOf(pair_counts, top_a, top_b, nodes) ==
    Map(LAMBDA item : [pair |-> item[1],
                       source |-> NodeIndex(nodes, item[1][1]),
                       target |-> NodeIndex(nodes, item[1][2]),
                       value |-> item[2]],
        Filter(pair_counts,
               LAMBDA item : link_retained(item[1][1], item[1][2], top_a, top_b)))

\* The mutant of sankey_pairs: the loop tests the display name of the
\* institution, as extract_khcc_and_collaborator_links does.
sankey_pairs_by_name(cell) ==
    IF cell.kind = "invalid" \/ \E k \in 1..Len(cell.value) : ~cell.value[k].has_author
    THEN [raised |-> TRUE, pairs |-> <<>>]
    ELSE [raised |-> FALSE,
          pairs |-> Cross(Map(LAMBDA a : a.display_name,
                              Filter(cell.value, is_khcc_by_get_name)),
                          Map(LAMBDA a : a.display_name,
                              Filter(cell.value, LAMBDA a : ~is_khcc_by_get_name(a))))]

\* One pass of the loop of create_sankey_diagram: the (home, external) pairs
\* of a publication.  auth['author'] raises KeyError on an entry without author.
sankey_pairs(cell) ==
    IF cell.kind = "invalid" \/ \E k \in 1..Len(cell.value) : ~cell.value[k].has_author
    THEN [raised |-> TRUE, pairs |-> <<>>]
    ELSE [raised |-> FALSE,
          pairs |-> Cross(extract_khcc_authors(cell.value).khcc_authors,
                          Map(LAMBDA a : a.display_name,
                              Filter(cell.value, LAMBDA a : ~is_khcc_by_id(a))))]

\* The mutant of khcc_collaborations_initial: the list outlives the call, as a
\* module-level list would.
khcc_collaborations_kept ==
    IF call = "create_sankey_diagram" THEN ret.khcc_collaborations ELSE <<>>

\* khcc_collaborations = [], the list create_sankey_diagram starts from.
khcc_collaborations_initial == <<>>

SankeyRaised ==
    [raised |-> TRUE, khcc_collaborations |-> <<>>, khcc_author_counts |-> <<>>,
     collaboration_counts |-> <<>>, top_khcc_authors |-> <<>>,
     top_external_authors |-> <<>>, nodes |-> <<>>, links |-> <<>>]

create_sankey_diagram(table) ==
    LET rows == dropna(Map(LAMBDA row : row.authorships, table))
        khcc_collaborations ==
            khcc_collaborations_initial
                \o FlatMap(LAMBDA cell : sankey_pairs(cell).pairs, rows)
        khcc_author_counts == CounterOf(Map(LAMBDA pair : pair[1], khcc_collaborations))
        top_khcc_authors == Keys(most_common(khcc_author_counts, N_KHCC_AUTHORS))
        external_author_counts ==
            CounterOf(Map(LAMBDA pair : pair[2],
                          Filter(khcc_collaborations,
                                 LAMBDA pair : Contains(top_khcc_authors, pair[1]))))
        top_external_authors == Keys(most_common(external_author_counts, N_EXTERNAL_AUTHORS))
        nodes == top_khcc_authors \o top_external_authors
        collaboration_counts == CounterOf(khcc_collaborations)
    IN  IF \E k \in 1..Len(rows) : sankey_pairs(rows[k]).raised
        THEN SankeyRaised
        ELSE [raised |-> FALSE,
              khcc_collaborations |-> khcc_collaborations,
              khcc_author_counts |-> khcc_author_counts,
              collaboration_counts |-> collaboration_counts,
              top_khcc_authors |-> top_khcc_authors,
              top_external_authors |-> top_external_authors,
              nodes |-> nodes,
              links |-> LinksOf(collaboration_counts, top_khcc_authors,
                                top_external_authors, nodes)]


(***************************************************************************)
(* create_institution_country_sankeys (src/app.py:673-798)                 *)
(***************************************************************************)
\* sum(1 for x in items if x == v)
Count(items, v) == Cardinality({k \in 1..Len(items) : items[k] = v})

\* The links built by the nested loops `for author in top_a: for b in top_b:
\* count = ...; if count > 0`.
NestedLinks(all_links, top_a, top_b, nodes) ==
    LET Row(a) ==
            Map(LAMBDA b : [pair |-> <<a, b>>,
                            source |-> NodeIndex(nodes, a),
                            target |-> NodeIndex(nodes, b),
                            value |-> Count(all_links, <<a, b>>)],
                Filter(top_b, LAMBDA b : Count(all_links, <<a, b>>) > 0))
    IN  FlatMap(Row, top_a)

InstCountryRaised ==
    [raised |-> TRUE, all_institution_links |-> <<>>, all_country_links |-> <<>>,
     top_khcc_authors |-> <<>>, top_institutions |-> <<>>, top_countries |-> <<>>,
     inst_nodes |-> <<>>, inst_links |-> <<>>, country_nodes |-> <<>>,
     country_links |-> <<>>]

create_institution_country_sankeys(table, order) ==
    LET rows == dropna(Map(LAMBDA row : row.authorships, table))
        Parsed(cell) == extract_khcc_institution_country_links(cell)
        all_khcc_authors ==
            IterateSet(FlatMap(LAMBDA cell : Parsed(cell).khcc_authors, rows), order)
        all_institution_links ==
            FlatMap(LAMBDA cell : Parsed(cell).external_institutions, rows)
        all_country_links ==
            FlatMap(LAMBDA cell : Parsed(cell).external_countries, rows)
        khcc_author_counts ==
            Map(LAMBDA author :
                    <<author,
                      Cardinality({k \in 1..Len(all_institution_links) :
                                      all_institution_links[k][1] = author})
                      + Cardinality({k \in 1..Len(all_country_links) :
                                        all_country_links[k][1] = author})>>,
                all_khcc_authors)
        top_khcc_authors == Keys(most_common(khcc_author_counts, N_KHCC_AUTHORS))
        OfTop(links) ==
            Map(LAMBDA x : x[2],
                Filter(links, LAMBDA x : Contains(top_khcc_authors, x[1])))
        top_institutions ==
            Keys(most_common(CounterOf(OfTop(all_institution_links)), N_INSTITUTIONS))
        top_countries ==
            Keys(most_common(CounterOf(OfTop(all_country_links)), N_COUNTRIES))
        inst_nodes == top_khcc_authors \o top_institutions
        country_nodes == top_khcc_authors \o top_countries
    IN  IF \E k \in 1..Len(rows) : Parsed(rows[k]).raised
        THEN InstCountryRaised
        ELSE [raised |-> FALSE,
              all_institution_links |-> all_institution_links,
              all_country_links |-> all_country_links,
              top_khcc_authors |-> top_khcc_authors,
              top_institutions |-> top_institutions,
              top_countries |-> top_countries,
              inst_nodes |-> inst_nodes,
              inst_links |-> NestedLinks(all_institution_links, top_khcc_authors,
                                         top_institutions, inst_nodes),
              country_nodes |-> country_nodes,
              country_links |-> NestedLinks(all_country_links, top_khcc_authors,
                                            top_countries, country_nodes)]

(***************************************************************************)
(* create_department_charts (src/app.py:850-963)                           *)
(***************************************************************************)
\* The mutant of dept_pair_key: the pair is kept as the list gives it.
dept_pair_key_unsorted(dept1, dept2) == <<dept1, dept2>>

\* tuple(sorted([dept1, dept2]))
dept_pair_key(dept1, dept2) ==
    IF StrLess(dept2, dept1) THEN <<dept2, dept1>> ELSE <<dept1, dept2>>

\* The departments of one publication: the labels extracted from the raw
\* affiliation strings of its home authors, in the order they are found.
found_departments(auth) ==
    LET OfEntry(a) ==
            IF is_khcc_by_id(a)
            THEN Map(LAMBDA d : d.s,
                     Filter(Map(LAMBDA raw : extract_khcc_department(Str(raw)),
                                a.raw_affiliation_strings),
                            LAMBDA d : d.kind = "str" /\ d.s # <<>>))
            ELSE <<>>
    IN  FlatMap(OfEntry, auth)

\* paper_depts, as the loops of create_department_charts iterate the set.
paper_depts(cell, order) == IterateSet(found_departments(cell.value), order)

\* for i, dept1 in enumerate(depts): for dept2 in depts[i+1:]: if dept1 != dept2
dept_pairs(depts) ==
    LET Row(i) ==
            Map(LAMBDA dept2 : dept_pair_key(depts[i], dept2),
                Filter(SubSeq(depts, i + 1, Len(depts)), LAMBDA dept2 : depts[i] # dept2))
    IN  FlatMap(Row, [i \in 1..Len(depts) |-> i])

DeptRaised ==
    [raised |-> TRUE, empty |-> FALSE, dept_counts |-> <<>>, dept_collab_counts |-> <<>>,
     top_departments |-> <<>>, nodes |-> <<>>, links |-> <<>>]

create_department_charts(table, order) ==
    LET rows == dropna(Map(LAMBDA row : row.authorships, table))
        dept_counts == CounterOf(FlatMap(LAMBDA cell : paper_depts(cell, order), rows))
        dept_collab_counts ==
            CounterOf(FlatMap(LAMBDA cell : dept_pairs(paper_depts(cell, order)), rows))
        top_departments == Keys(sort_values_tail(dept_counts, N_DEPARTMENTS))
    IN  IF \E k \in 1..Len(rows) : rows[k].kind = "invalid"
        THEN DeptRaised
        ELSE IF dept_counts = <<>>
        THEN [DeptRaised EXCEPT !.raised = FALSE, !.empty = TRUE]
        ELSE [raised |-> FALSE, empty |-> FALSE,
              dept_counts |-> dept_counts,
              dept_collab_counts |-> dept_collab_counts,
              top_departments |-> top_departments,
              nodes |-> top_departments,
              links |-> LinksOf(dept_collab_counts, top_departments,
                                top_departments, top_departments)]

(***************************************************************************)
(* create_frequency_charts (src/app.py:398-495)                            *)
(***************************************************************************)
\* DataFrame.from_dict(counts, orient='index', columns=['count']) of an empty
\* Counter has a column of dtype object, on which nlargest raises TypeError.
nlargest_raises(counts) == counts = <<>>

FrequencyRaised ==
    [raised |-> TRUE, inst_counts |-> <<>>, country_counts |-> <<>>,
     author_counts |-> <<>>, author_df |-> <<>>, inst_df |-> <<>>, country_df |-> <<>>]

create_frequency_charts(table) ==
    LET rows == dropna(Map(LAMBDA row : row.authorships, table))
        inst_counts ==
            CounterOf(Filter(FlatMap(LAMBDA cell :
                                         extract_institutions_and_countries(cell).institutions,
                                     rows),
                             LAMBDA inst : inst # KHCC_NAME))
        country_counts ==
            CounterOf(FlatMap(LAMBDA cell : extract_institutions_and_countries(cell).countries,
                              rows))
        author_counts ==
            CounterOf(FlatMap(LAMBDA cell : extract_external_authors(cell).external_authors,
                              rows))
    IN  IF \/ \E k \in 1..Len(rows) : extract_institutions_and_countries(rows[k]).raised
           \/ nlargest_raises(author_counts)
           \/ nlargest_raises(inst_counts)
           \/ nlargest_raises(country_counts)
        THEN FrequencyRaised
        ELSE [raised |-> FALSE,
              inst_counts |-> inst_counts,
              country_counts |-> country_counts,
              author_counts |-> author_counts,
              author_df |-> nlargest(author_counts, N_FREQUENCY),
              inst_df |-> nlargest(inst_counts, N_FREQUENCY),
              country_df |-> nlargest(country_counts, N_FREQUENCY)]


(***************************************************************************)
(* create_enhanced_topic_graph (src/app.py:966-1127)                       *)
(***************************************************************************)
\* tuple(sorted(conn)) for a pair of topic names.
sorted_pair(conn) == IF NameLess(conn[2], conn[1]) THEN <<conn[2], conn[1]>> ELSE conn

\* The topics of one row: a NULL or undecodable cell gives none.
paper_topics(cell) == IF cell.kind = "text" THEN cell.value ELSE <<>>

\* for i in range(len(ts)): for j in range(i + 1, len(ts)): (ts[i], ts[j])
topic_pairs(ts) ==
    LET Row(i) == [k \in 1..(Len(ts) - i) |-> <<ts[i], ts[i + k]>>]
    IN  FlatMap(Row, [i \in 1..Len(ts) |-> i])

create_enhanced_topic_graph(table, min_papers, min_connections) ==
    LET topic_counts == CounterOf(FlatMap(LAMBDA row : paper_topics(row.topics), table))
        topic_connections ==
            FlatMap(LAMBDA row : topic_pairs(paper_topics(row.topics)), table)
        Significant(topic) == CountOf(topic_counts, topic) >= min_papers
        connection_counts ==
            CounterOf(Map(sorted_pair,
                          Filter(topic_connections,
                                 LAMBDA conn : Significant(conn[1]) /\ Significant(conn[2]))))
        significant_connections ==
            Filter(connection_counts, LAMBDA item : item[2] >= min_connections)
    IN  [raised |-> FALSE,
         topic_counts |-> topic_counts,
         connection_counts |-> connection_counts,
         edges |-> significant_connections,
         nodes |-> Dedup(FlatMap(LAMBDA item : item[1], significant_connections))]

(***************************************************************************)
(* src/step_app.py: extract_collaborations_from_papers and                 *)
(* create_institution_country_sankeys                                      *)
(***************************************************************************)
\* BibliometricData._safe_json_loads: the list, None for NULL or bad JSON;
\* `json.loads(authorships) if authorships else []` then reads None as [].
step_authorships(cell) == IF cell.kind = "text" THEN cell.value ELSE <<>>

\* groupby(key).sum(): one row per key, the keys in sorted order.
RECURSIVE InsertByName(_, _)
InsertByName(sorted, x) ==
    IF sorted = <<>> THEN <<x>>
    ELSE IF NameLess(x[1], Head(sorted)[1]) THEN <<x>> \o sorted
    ELSE <<Head(sorted)>> \o InsertByName(Tail(sorted), x)

RECURSIVE groupby_sum(_)
groupby_sum(counts) ==
    IF counts = <<>> THEN <<>>
    ELSE InsertByName(groupby_sum(Tail(counts)), Head(counts))

\* The institutions and the country codes one publication adds.
step_external_institutions(auth) ==
    FlatMap(LAMBDA a :
                IF is_khcc_by_get_name(a) THEN <<>>
                ELSE Map(LAMBDA inst : inst.display_name,
                         Filter(a.institutions,
                                LAMBDA inst : inst.display_name \notin {NoKey, KHCC_NAME})),
            auth)

step_external_countries(auth) ==
    FlatMap(LAMBDA a :
                IF is_khcc_by_get_name(a) THEN <<>>
                ELSE Map(LAMBDA inst : inst.country_code,
                         Filter(a.institutions, LAMBDA inst : inst.country_code # NoKey)),
            auth)

extract_collaborations_from_papers(table) ==
    [inst_df |->
         groupby_sum(CounterOf(FlatMap(
             LAMBDA row : Dedup(step_external_institutions(step_authorships(row.authorships))),
             table))),
     country_df |->
         groupby_sum(CounterOf(FlatMap(
             LAMBDA row : Dedup(step_external_countries(step_authorships(row.authorships))),
             table)))]

\* The links from node 0 to each of the rows.
StepLinks(rows, nodes) ==
    [k \in 1..Len(rows) |->
        [pair |-> <<nodes[1], rows[k][1]>>, source |-> 0,
         target |-> NodeIndex(nodes, rows[k][1]), value |-> rows[k][2]]]

step_create_institution_country_sankeys(table) ==
    LET dfs == extract_collaborations_from_papers(table)
        top_institutions == nlargest(dfs.inst_df, STEP_N_INSTITUTIONS)
        top_countries == nlargest(dfs.country_df, STEP_N_COUNTRIES)
        inst_nodes == <<"KHCC">> \o Keys(top_institutions)
        country_nodes == <<"Jordan">> \o Keys(top_countries)
    IN  IF dfs.inst_df = <<>> \/ dfs.country_df = <<>>
        THEN [raised |-> FALSE, placeholder |-> TRUE, inst_nodes |-> <<>>,
              inst_links |-> <<>>, country_nodes |-> <<>>, country_links |-> <<>>]
        ELSE [raised |-> FALSE, placeholder |-> FALSE,
              inst_nodes |-> inst_nodes,
              inst_links |-> StepLinks(top_institutions, inst_nodes),
              country_nodes |-> country_nodes,
              country_links |->
                  [k \in 1..Len(top_countries) |->
                      [pair |-> <<"Jordan", top_countries[k][1]>>, source |-> 0,
                       target |-> k, value |-> top_countries[k][2]]]]


(***************************************************************************)
(* The publication tables                                                  *)
(***************************************************************************)
INST_KHCC == [id |-> KHCC_ID, display_name |-> KHCC_NAME, country_code |-> "JO"]
INST_KHCC_ID_ONLY == [id |-> KHCC_ID, display_name |-> NoKey, country_code |-> NoKey]
INST_FOREIGN_U == [id |-> "X", display_name |-> "Foreign U", country_code |-> "US"]
INST_OTHER_U == [id |-> "Y", display_name |-> "Other U", country_code |-> "DE"]

\* "Department of Medical Oncology, King Hussein Cancer Center, Amman"
RAW_MEDICAL_ONCOLOGY ==
    <<"Department", SP, "of", SP, "Medical", SP, "Oncology", COMMA, SP>>
        \o KHCC_TEXT \o <<COMMA, SP, "Amman">>
\* "Department of Radiology, King Hussein Cancer Center"
RAW_RADIOLOGY == <<"Department", SP, "of", SP, "Radiology", COMMA, SP>> \o KHCC_TEXT
\* "Section of Surgery King Hussein Cancer Center"
RAW_SURGERY == <<"Section", SP, "of", SP, "Surgery", SP>> \o KHCC_TEXT
\* "Department of Medicine, Foreign U"
RAW_FOREIGN == <<"Department", SP, "of", SP, "Medicine", COMMA, SP, "Foreign U">>

Entry(name, institutions, countries, raws) ==
    [has_author |-> TRUE, display_name |-> name, institutions |-> institutions,
     countries |-> countries, raw_affiliation_strings |-> raws]

\* The two entries of the authorships list of spec.md, Testable Properties.
entry_A == Entry("A", <<INST_KHCC_ID_ONLY>>, <<>>, <<>>)
entry_B == Entry("B", <<INST_FOREIGN_U>>, <<>>, <<>>)
\* A home author, an author of a foreign and of the home institution, an
\* external author, an entry without 'author', a home author of three units.
entry_H == Entry("H", <<INST_KHCC>>, <<"JO">>, <<RAW_MEDICAL_ONCOLOGY>>)
entry_M == Entry("M", <<INST_FOREIGN_U, INST_KHCC>>, <<"US", "JO">>, <<RAW_RADIOLOGY>>)
entry_E == Entry("E", <<INST_OTHER_U>>, <<"DE">>, <<RAW_FOREIGN>>)
\* A second external author of the institution of E.
entry_F == Entry("F", <<INST_OTHER_U>>, <<"DE">>, <<>>)
entry_X == [Entry(NoKey, <<INST_FOREIGN_U>>, <<"US">>, <<>>) EXCEPT !.has_author = FALSE]
entry_R == Entry("R", <<INST_KHCC>>, <<"JO">>,
                 <<RAW_RADIOLOGY, RAW_SURGERY, RAW_MEDICAL_ONCOLOGY>>)

Null == [kind |-> "null", value |-> <<>>]
Invalid == [kind |-> "invalid", value |-> <<>>]
Text(value) == [kind |-> "text", value |-> value]

Row(authorships, topics) == [authorships |-> authorships, topics |-> topics]

Rows ==
    { Row(Null, Null),
      Row(Invalid, Invalid),
      Row(Text(<<>>), Text(<<>>)),
      Row(Text(<<entry_A, entry_B>>), Text(<<"T1", "T2">>)),
      Row(Text(<<entry_H, entry_E, entry_F>>), Text(<<"T2", "T1">>)),
      Row(Text(<<entry_H, entry_M>>), Text(<<"T1", "T2", "T3">>)),
      Row(Text(<<entry_M, entry_H, entry_B>>), Text(<<"T1">>)),
      Row(Text(<<entry_X, entry_R>>), Text(<<"T1", "T1">>)) }

\* Publications of many authors: home authors lo..hi of HomeNames, each of a
\* department of its own, and external authors lo..hi of ExtNames, each of an
\* institution and a country of its own.
WideAuthors == 11

HomeNames == <<"H01", "H02", "H03", "H04", "H05", "H06", "H07", "H08", "H09", "H10",
               "H11", "H12", "H13">>
ExtNames == <<"E01", "E02", "E03", "E04", "E05", "E06", "E07", "E08", "E09", "E10",
              "E11", "E12", "E13">>
InstNames == <<"U01", "U02", "U03", "U04", "U05", "U06", "U07", "U08", "U09", "U10",
               "U11", "U12", "U13">>
CountryNames == <<"C01", "C02", "C03", "C04", "C05", "C06", "C07", "C08", "C09", "C10",
                  "C11", "C12", "C13">>
DeptNames == <<"D01", "D02", "D03", "D04", "D05", "D06", "D07", "D08", "D09", "D10",
               "D11", "D12", "D13">>

WideHome(k) ==
    Entry(HomeNames[k], <<INST_KHCC>>, <<"JO">>,
          << <<"Department", SP, "of", SP, DeptNames[k], COMMA, SP>> \o KHCC_TEXT >>)
WideExternal(k) ==
    Entry(ExtNames[k],
          <<[id |-> InstNames[k], display_name |-> InstNames[k],
             country_code |-> CountryNames[k]]>>,
          <<CountryNames[k]>>, <<>>)

WideRow(home, ext) ==
    Row(Text([k \in 1..(home[2] - home[1] + 1) |-> WideHome(home[1] + k - 1)]
             \o [k \in 1..(ext[2] - ext[1] + 1) |-> WideExternal(ext[1] + k - 1)]),
        Text(<<"T1", "T2">>))

\* All the authors, or the last one alone.
WideAll == <<1, WideAuthors>>
WideLast == <<WideAuthors, WideAuthors>>
WideRows == { WideRow(WideAll, WideAll), WideRow(WideAll, WideLast),
              WideRow(WideLast, WideLast) }

MaxPapers == 2

RECURSIVE TablesOver(_, _)
TablesOver(rows, n) ==
    IF n = 0 THEN { <<>> }
    ELSE LET shorter == TablesOver(rows, n - 1)
         IN  shorter \cup { Append(table, row) : table \in shorter, row \in rows }

(***************************************************************************)
(* The dashboard: the table is loaded once, then its functions are called  *)
(***************************************************************************)
NoCall == [raised |-> FALSE]

DashIdle == papers_df = <<>> /\ call = "idle" /\ ret = NoCall /\ rerun = FALSE
DeptIdle ==
    /\ raw_affiliation = None /\ dept_name = None /\ dept_out = None
    /\ std_out = None /\ std_again = None /\ dpc = "idle"
TopIdle == counter = <<>> /\ selection = <<>> /\ spc = "idle"
\* The table khcc_authors before the script has run: no row, and no id given.
NoAuthors == [rows |-> {}, seq |-> 0]
ScriptIdle == khcc_authors_table = NoAuthors /\ runs = 0
\* dbc.Modal(..., id="paper-modal") is given no is_open.
PageIdle == paper_modal = "None"
NotLoaded == [raised |-> FALSE, columns |-> {}]
NoLayout == <<>>
ServeIdle ==
    /\ variant = "none" /\ environ = [DB_PASSWORD |-> FALSE]
    /\ source = [status |-> "none", rows |-> <<>>] /\ phase = "idle"
    /\ loaded = NotLoaded /\ layout = NoLayout /\ inflight = {}

DashInit ==
    /\ papers_df \in TablesOver(Rows, MaxPapers)
    /\ call = "none"
    /\ ret = NoCall
    /\ rerun = FALSE

WideInit ==
    /\ papers_df \in TablesOver(WideRows, MaxPapers)
    /\ call = "none"
    /\ ret = NoCall
    /\ rerun = FALSE

\* The rows whose authorships cell is not NULL.
NonNull == {i \in 1..Len(papers_df) : papers_df[i].authorships.kind # "null"}

Returns(fn, value) ==
    /\ call' = fn
    /\ ret' = value
    /\ rerun' = (call = fn)
    /\ UNCHANGED <<papers_df, deptVars, topVars, serveVars, scriptVars, pageVars>>

Call_extract_khcc_and_collaborator_links ==
    \E i \in NonNull :
        Returns("extract_khcc_and_collaborator_links",
                [arg |-> i] @@ extract_khcc_and_collaborator_links(papers_df[i].authorships))

Call_extract_khcc_institution_country_links ==
    \E i \in NonNull :
        Returns("extract_khcc_institution_country_links",
                [arg |-> i] @@ extract_khcc_institution_country_links(papers_df[i].authorships))

Call_extract_institutions_and_countries ==
    \E i \in NonNull :
        Returns("extract_institutions_and_countries",
                [arg |-> i] @@ extract_institutions_and_countries(papers_df[i].authorships))

Call_create_frequency_charts ==
    Returns("create_frequency_charts", create_frequency_charts(papers_df))

Call_create_sankey_diagram ==
    Returns("create_sankey_diagram", create_sankey_diagram(papers_df))

Call_create_institution_country_sankeys ==
    \E order \in SetOrders :
        Returns("create_institution_country_sankeys",
                create_institution_country_sankeys(papers_df, order))

Call_create_department_charts ==
    \E order \in SetOrders :
        Returns("create_department_charts", create_department_charts(papers_df, order))

\* Positions of the sliders min-papers-slider (1 to 10, 3 at start) and
\* min-connections-slider (1 to 5, 2 at start).
PaperCutoffs == {1, 2, 3}
ConnectionCutoffs == {1, 2}

Call_create_enhanced_topic_graph ==
    \E min_papers \in PaperCutoffs, min_connections \in ConnectionCutoffs :
        Returns("create_enhanced_topic_graph",
                [min_papers |-> min_papers, min_connections |-> min_connections]
                    @@ create_enhanced_topic_graph(papers_df, min_papers, min_connections))

Call_step_extract_collaborations_from_papers ==
    Returns("step_extract_collaborations_from_papers",
            extract_collaborations_from_papers(papers_df))

Call_step_create_institution_country_sankeys ==
    Returns("step_create_institution_country_sankeys",
            step_create_institution_country_sankeys(papers_df))

Next ==
    \/ Call_extract_khcc_and_collaborator_links
    \/ Call_extract_khcc_institution_country_links
    \/ Call_extract_institutions_and_countries
    \/ Call_create_frequency_charts
    \/ Call_create_sankey_diagram
    \/ Call_create_institution_country_sankeys
    \/ Call_create_department_charts
    \/ Call_create_enhanced_topic_graph
    \/ Call_step_extract_collaborations_from_papers
    \/ Call_step_create_institution_country_sankeys

\* The dashboard on tables of the publications Rows.
Init == DashInit /\ DeptIdle /\ TopIdle /\ ServeIdle /\ ScriptIdle /\ PageIdle
Spec == Init /\ [][Next]_vars

\* The dashboard on tables of publications with more authors than a top-N
\* list holds.
WideSpecInit == WideInit /\ DeptIdle /\ TopIdle /\ ServeIdle /\ ScriptIdle /\ PageIdle
WideSpec == WideSpecInit /\ [][Next]_vars

\* The department functions on bounded affiliation strings.
DeptSpecInit == DeptInit /\ DashIdle /\ TopIdle /\ ServeIdle /\ ScriptIdle /\ PageIdle
DeptSpec == DeptSpecInit /\ [][DeptNext]_vars

\* The top-N selections on bounded Counters.
TopNSpecInit == TopInit /\ DashIdle /\ DeptIdle /\ ServeIdle /\ ScriptIdle /\ PageIdle
TopNSpec == TopNSpecInit /\ [][TopNext]_vars


(***************************************************************************)
(* Properties                                                              *)
(***************************************************************************)
\* The entries of the authorships cell of row i.
EntriesOf(i) == papers_df[i].authorships.value

\* The rows whose authorships cell holds a list.
TextRows == {i \in 1..Len(papers_df) : papers_df[i].authorships.kind = "text"}

\* C1: every (home, external) link has its first member drawn from an entry
\* classified home and its second from an entry classified external, and no
\* link joins two home-classified authors.  For the links of
\* extract_khcc_and_collaborator_links the entries are those of its argument,
\* classified by the name scan; for the pairs of create_sankey_diagram they are
\* the entries of one publication of the table, classified by the identifier.
C1_LinksJoinHomeToExternal ==
    /\ (call = "extract_khcc_and_collaborator_links" /\ ~ret.raised) =>
          \A k \in 1..Len(ret.links) :
              LET link == ret.links[k]
                  auth == EntriesOf(ret.arg)
              IN  /\ \E a \in Range(auth) :
                         is_khcc_by_name(a) /\ a.has_author /\ a.display_name = link[1]
                  /\ \E b \in Range(auth) :
                         ~is_khcc_by_name(b) /\ b.has_author /\ b.display_name = link[2]
                  /\ ~\E h \in Range(auth) :
                         is_khcc_by_name(h) /\ h.has_author /\ h.display_name = link[2]
    /\ (call = "create_sankey_diagram" /\ ~ret.raised) =>
          \A k \in 1..Len(ret.khcc_collaborations) :
              LET link == ret.khcc_collaborations[k]
              IN  \E i \in TextRows :
                      /\ \E a \in Range(EntriesOf(i)) :
                             is_khcc_by_id(a) /\ a.display_name = link[1]
                      /\ \E b \in Range(EntriesOf(i)) :
                             ~is_khcc_by_id(b) /\ b.display_name = link[2]
                      /\ ~\E h \in Range(EntriesOf(i)) :
                             is_khcc_by_id(h) /\ h.display_name = link[2]

\* A publication of two home authors and one external author has been parsed
\* into its two links.
C1_Witness ==
    /\ call = "extract_khcc_and_collaborator_links"
    /\ ~ret.raised
    /\ ret.links = << <<"M", "B">>, <<"H", "B">> >>

\* The departments extracted from the publication of row i.
DepartmentsOf(i) == Range(found_departments(EntriesOf(i)))

\* C3: in create_department_charts the count of the unordered pair of
\* departments {A, B} is the number of publications from which both were
\* extracted, held under the one key that lists the two in sorted order.
C3_DepartmentPairCounts ==
    (call = "create_department_charts" /\ ~ret.raised /\ ~ret.empty) =>
        LET depts == UNION { DepartmentsOf(i) : i \in TextRows }
            both(A, B) == {i \in TextRows : A \in DepartmentsOf(i) /\ B \in DepartmentsOf(i)}
        IN  /\ \A A \in depts, B \in depts :
                  StrLess(A, B) =>
                      /\ CountOf(ret.dept_collab_counts, <<A, B>>) = Cardinality(both(A, B))
                      /\ CountOf(ret.dept_collab_counts, <<B, A>>) = 0
            /\ \A k \in 1..Len(ret.dept_collab_counts) :
                  LET key == ret.dept_collab_counts[k][1]
                  IN  /\ key[1] \in depts /\ key[2] \in depts
                      /\ StrLess(key[1], key[2])

\* Two publications, each of the same two departments, found in the one in
\* the opposite order of the other: the pair is counted 2 under one key.
C3_Witness ==
    /\ call = "create_department_charts"
    /\ ~ret.raised
    /\ Len(papers_df) = 2
    /\ TextRows = {1, 2}
    /\ Len(found_departments(EntriesOf(1))) = 2
    /\ found_departments(EntriesOf(1)) = Reverse(found_departments(EntriesOf(2)))
    /\ Len(ret.dept_collab_counts) = 1
    /\ ret.dept_collab_counts[1][2] = 2

\* C6: a top-N selection holds at most N entities: 10 for most_common and for
\* the department chart, 20 for nlargest, 15 for the sorted head.
C6_TopNAtMostN ==
    /\ spc = "most_common" => Len(selection) <= N_KHCC_AUTHORS
    /\ spc = "nlargest" => Len(selection) <= N_FREQUENCY
    /\ spc = "sort_tail" => Len(selection) <= N_DEPARTMENTS
    /\ spc = "sorted_head" => Len(selection) <= STEP_N_DEPARTMENTS
    /\ spc # "counting" => \A k \in 1..Len(selection) : selection[k] \in Range(counter)

\* More entities than the largest cutoff were counted and 20 of them selected.
C6_Witness ==
    /\ spc = "nlargest"
    /\ Len(counter) > N_FREQUENCY
    /\ Len(selection) = N_FREQUENCY


\* The authorships list of spec.md, Testable Properties: A of an institution
\* that carries the home identifier alone, B of "Foreign U" in "US".
SpecExample == <<entry_A, entry_B>>

\* C2: on the list SpecExample the parser classifies A home and B external and
\* gives exactly one (A, B) pair, with institution "Foreign U" and country "US".
C2_SpecExamplePair ==
    /\ (call = "extract_khcc_and_collaborator_links" /\ EntriesOf(ret.arg) = SpecExample) =>
          ~ret.raised /\ ret.links = << <<"A", "B">> >>
    /\ (call = "extract_khcc_institution_country_links"
          /\ EntriesOf(ret.arg) = SpecExample) =>
          /\ ~ret.raised
          /\ ret.khcc_authors = <<"A">>
          /\ ret.external_institutions = << <<"A", "Foreign U">> >>
          /\ ret.external_countries = << <<"A", "US">> >>
    /\ (call = "step_extract_collaborations_from_papers"
          /\ Len(papers_df) = 1 /\ TextRows = {1} /\ EntriesOf(1) = SpecExample) =>
          /\ ret.inst_df = << <<"Foreign U", 1>> >>
          /\ ret.country_df = << <<"US", 1>> >>

\* The aggregate functions of the dashboard.
Aggregates ==
    {"create_frequency_charts", "create_sankey_diagram",
     "create_institution_country_sankeys", "create_department_charts",
     "create_enhanced_topic_graph", "step_create_institution_country_sankeys"}

\* C7: on a table of zero rows every aggregate function completes without
\* raising, and its counts, nodes and links are of length zero.
C7_EmptyTableCompletes ==
    (papers_df = <<>> /\ call \in Aggregates) =>
        /\ ~ret.raised
        /\ \A field \in DOMAIN ret :
              field \in {"inst_counts", "country_counts", "author_counts",
                         "collaboration_counts", "dept_counts", "dept_collab_counts",
                         "topic_counts", "connection_counts", "nodes", "links", "edges",
                         "inst_nodes", "inst_links", "country_nodes", "country_links"}
                  => ret[field] = <<>>

\* The display names of the institutions of an entry.
InstitutionNames(a) == { a.institutions[k].display_name : k \in 1..Len(a.institutions) }

\* C9: the institutions listed as external by extract_institutions_and_countries
\* and extract_collaborations_from_papers, and those linked by
\* extract_khcc_institution_country_links, are institutions of entries
\* classified external, and none is the home institution.
C9_ExternalInstitutionsOnly ==
    /\ (call = "extract_institutions_and_countries" /\ ~ret.raised) =>
          \A inst \in Range(ret.institutions) :
              /\ inst # KHCC_NAME
              /\ \E b \in Range(EntriesOf(ret.arg)) :
                     ~is_khcc_by_name(b) /\ inst \in InstitutionNames(b)
    /\ (call = "extract_khcc_institution_country_links" /\ ~ret.raised) =>
          \A link \in Range(ret.external_institutions) :
              /\ link[2] # KHCC_NAME
              /\ \E b \in Range(EntriesOf(ret.arg)) :
                     ~is_khcc_by_id(b) /\ link[2] \in InstitutionNames(b)
    /\ call = "step_extract_collaborations_from_papers" =>
          \A item \in Range(ret.inst_df) :
              /\ item[1] # KHCC_NAME
              /\ \E i \in TextRows : \E b \in Range(EntriesOf(i)) :
                     ~is_khcc_by_get_name(b) /\ item[1] \in InstitutionNames(b)

\* Whether every link of a diagram joins an entity of top_a to one of top_b,
\* by indices that are positions of the node list.
LinksInside(links, top_a, top_b, nodes) ==
    \A k \in 1..Len(links) :
        /\ Contains(top_a, links[k].pair[1])
        /\ Contains(top_b, links[k].pair[2])
        /\ links[k].source \in 0..(Len(nodes) - 1)
        /\ links[k].target \in 0..(Len(nodes) - 1)
        /\ nodes[links[k].source + 1] = links[k].pair[1]
        /\ nodes[links[k].target + 1] = links[k].pair[2]

\* C10: every link a flow diagram keeps has both endpoints in the top-N lists
\* that form the nodes of the diagram, and its source and target are valid
\* indices of the node list.
C10_LinksInsideTopN ==
    /\ (call = "create_sankey_diagram" /\ ~ret.raised) =>
          LinksInside(ret.links, ret.top_khcc_authors, ret.top_external_authors, ret.nodes)
    /\ (call = "create_institution_country_sankeys" /\ ~ret.raised) =>
          /\ LinksInside(ret.inst_links, ret.top_khcc_authors, ret.top_institutions,
                         ret.inst_nodes)
          /\ LinksInside(ret.country_links, ret.top_khcc_authors, ret.top_countries,
                         ret.country_nodes)
    /\ (call = "create_department_charts" /\ ~ret.raised) =>
          LinksInside(ret.links, ret.top_departments, ret.top_departments, ret.nodes)

\* More external authors were paired than the top list holds: the diagram
\* keeps links, and drops the pairs of the author left out.
C10_Witness ==
    /\ call = "create_sankey_diagram"
    /\ ~ret.raised
    /\ Len(ret.top_external_authors) = N_EXTERNAL_AUTHORS
    /\ Len(ret.links) > 0
    /\ Len(ret.links) < Len(ret.collaboration_counts)

\* Whether two Counters hold the same count for every key.
SameCounts(c, d) == Range(c) = Range(d)

AuthorshipPasses ==
    {"create_frequency_charts", "create_sankey_diagram",
     "create_institution_country_sankeys", "create_department_charts"}

\* The table without the rows whose authorships text is no JSON.
Decodable(table) == SelectSeq(table, LAMBDA row : row.authorships.kind # "invalid")

\* C11: a publication whose authorships text fails to decode is passed over
\* by every aggregation pass of the dashboard: the pass raises nothing and
\* gives what it gives on the other publications of the table.
C11_UndecodableSkipped ==
    (call \in AuthorshipPasses /\ Decodable(papers_df) # papers_df) =>
        /\ ~ret.raised
        /\ call = "create_sankey_diagram" => ret = create_sankey_diagram(Decodable(papers_df))
        /\ call = "create_frequency_charts" =>
              ret = create_frequency_charts(Decodable(papers_df))

\* The publications of the table in which an entry names the institution, the
\* country or the author, and those whose topics list holds the topic.
NamingInstitution(inst) ==
    {i \in TextRows : \E a \in Range(EntriesOf(i)) : inst \in InstitutionNames(a)}
NamingCountry(country) ==
    {i \in TextRows : \E a \in Range(EntriesOf(i)) : country \in Range(a.countries)}
NamingAuthor(name) ==
    {i \in TextRows : \E a \in Range(EntriesOf(i)) : a.has_author /\ a.display_name = name}
NamingTopic(topic) ==
    {i \in 1..Len(papers_df) : topic \in Range(paper_topics(papers_df[i].topics))}

\* Whether every count of the Counter is at most the number of publications
\* Naming gives for its key.
OncePerPublication(counts, Naming(_)) ==
    \A k \in 1..Len(counts) : counts[k][2] <= Cardinality(Naming(counts[k][1]))

\* C12: a publication adds at most 1 to the frequency count of an entity,
\* however often it mentions the entity: the count of an institution, country,
\* external author, department or topic never exceeds the number of
\* publications that mention it.
C12_CountedOncePerPublication ==
    /\ (call = "create_frequency_charts" /\ ~ret.raised) =>
          /\ OncePerPublication(ret.inst_counts, NamingInstitution)
          /\ OncePerPublication(ret.country_counts, NamingCountry)
          /\ OncePerPublication(ret.author_counts, NamingAuthor)
    /\ (call = "create_department_charts" /\ ~ret.raised) =>
          OncePerPublication(ret.dept_counts,
                             LAMBDA d : {i \in TextRows : d \in DepartmentsOf(i)})
    /\ call = "create_enhanced_topic_graph" =>
          OncePerPublication(ret.topic_counts, NamingTopic)
    /\ call = "step_extract_collaborations_from_papers" =>
          /\ OncePerPublication(ret.inst_df, NamingInstitution)
          /\ OncePerPublication(ret.country_df,
                 LAMBDA c : {i \in TextRows : \E a \in Range(EntriesOf(i)) :
                                \E k \in 1..Len(a.institutions) :
                                    a.institutions[k].country_code = c})


(***************************************************************************)
(* src/extract_khcc_authors.py: the rows the script writes to khcc_authors *)
(***************************************************************************)
\* One pass of the loop over papers: the author names of the rows written for
\* the publication.  json.loads(None) raises TypeError, which the handler of
\* json.JSONDecodeError does not catch; an entry without 'author' is written
\* with the name ''.
script_paper_authors(cell) ==
    IF cell.kind = "null" THEN [raised |-> TRUE, names |-> <<>>]
    ELSE IF cell.kind = "invalid" THEN [raised |-> FALSE, names |-> <<>>]
    ELSE [raised |-> FALSE,
          names |-> Map(LAMBDA a : IF a.has_author THEN a.display_name ELSE "",
                        Filter(cell.value, is_khcc_by_id))]

\* extract_khcc_authors(conn): the rows written, as <<paper, author name>>, up
\* to the publication that raises, and the count returned.
script_extract_khcc_authors(table) ==
    LET raising == {i \in 1..Len(table) : script_paper_authors(table[i].authorships).raised}
        last == IF raising = {} THEN Len(table)
                ELSE (CHOOSE i \in raising : \A j \in raising : i <= j) - 1
        written ==
            FlatMap(LAMBDA i : Map(LAMBDA name : <<i, name>>,
                                   script_paper_authors(table[i].authorships).names),
                    [i \in 1..last |-> i])
    IN  [raised |-> raising # {}, written |-> written,
         authors_count |-> IF raising # {} THEN 0 ELSE Len(written)]

(***************************************************************************)
(* The classifiers on entries of several institutions                      *)
(***************************************************************************)
MaxInstitutions == 3

RECURSIVE InstitutionLists(_)
InstitutionLists(n) ==
    IF n = 0 THEN { <<>> }
    ELSE LET shorter == InstitutionLists(n - 1)
         IN  shorter \cup { Append(insts, inst) :
                                insts \in shorter,
                                inst \in {INST_KHCC, INST_FOREIGN_U, INST_OTHER_U} }

\* A publication of the author M of the institutions insts and of the external
\* author B.
ClassifyRow(insts) ==
    Row(Text(<<Entry("M", insts, <<"US">>, <<RAW_RADIOLOGY>>), entry_B>>), Text(<<"T1">>))

ClassifyInit ==
    /\ papers_df \in { <<ClassifyRow(insts)>> : insts \in InstitutionLists(MaxInstitutions) }
    /\ call = "none"
    /\ ret = NoCall
    /\ rerun = FALSE

Call_extract_khcc_authors ==
    \E i \in TextRows :
        Returns("extract_khcc_authors", [arg |-> i] @@ extract_khcc_authors(EntriesOf(i)))

Call_extract_external_authors ==
    \E i \in NonNull :
        Returns("extract_external_authors",
                [arg |-> i] @@ extract_external_authors(papers_df[i].authorships))

Call_script_extract_khcc_authors ==
    Returns("script_extract_khcc_authors", script_extract_khcc_authors(papers_df))

ClassifyNext ==
    \/ Call_extract_khcc_authors
    \/ Call_extract_external_authors
    \/ Call_script_extract_khcc_authors
    \/ Call_extract_khcc_and_collaborator_links
    \/ Call_extract_khcc_institution_country_links
    \/ Call_extract_institutions_and_countries
    \/ Call_create_sankey_diagram
    \/ Call_create_department_charts
    \/ Call_step_extract_collaborations_from_papers

ClassifySpecInit == ClassifyInit /\ DeptIdle /\ TopIdle /\ ServeIdle /\ ScriptIdle /\ PageIdle
\* The classifiers on a publication whose first author has up to
\* MaxInstitutions institutions.
ClassifySpec == ClassifySpecInit /\ [][ClassifyNext]_vars

\* Whether the entry has several institutions, exactly one of them the home
\* institution.
SeveralOneHome(a) ==
    /\ Len(a.institutions) >= 2
    /\ Cardinality({k \in 1..Len(a.institutions) : a.institutions[k] = INST_KHCC}) = 1

go_Figure == [traces |-> 0, annotations |-> <<>>]

\* create_empty_figure(title) of step_app.py: a figure whose one annotation
\* is the text "<title> data unavailable".
create_empty_figure(title) ==
    [traces |-> 0, annotations |-> << <<title, "data unavailable">> >>]

\* The figures create_department_charts of app.py returns: two bare figures
\* when no department was found, else the Sankey diagram and the bar chart.
department_figures(r) ==
    IF r.empty THEN <<go_Figure, go_Figure>>
    ELSE << [traces |-> 1, annotations |-> <<>>], [traces |-> 1, annotations |-> <<>>] >>

\* The figure create_enhanced_topic_graph of app.py returns: the edge trace
\* and the node trace are added whatever the edges are.
topic_graph_figure(r) == [traces |-> 2, annotations |-> <<>>]

\* The figures create_institution_country_sankeys of step_app.py returns.
step_sankey_figures(r) ==
    IF r.placeholder
    THEN <<create_empty_figure("Institution Network"), create_empty_figure("Country Network")>>
    ELSE << [traces |-> 1, annotations |-> <<>>], [traces |-> 1, annotations |-> <<>>] >>

\* C14: when the aggregate handed to a renderer is empty (no department, no
\* institution or country collaboration, no topic edge), every figure returned
\* carries an annotation.
C14_EmptyAggregateAnnotated ==
    /\ (call = "create_department_charts" /\ ~ret.raised /\ ret.dept_counts = <<>>) =>
          \A k \in 1..2 : department_figures(ret)[k].annotations # <<>>
    /\ (call = "create_enhanced_topic_graph" /\ ~ret.raised /\ ret.edges = <<>>) =>
          topic_graph_figure(ret).annotations # <<>>
    /\ (call = "step_create_institution_country_sankeys" /\ ~ret.raised /\ ret.placeholder) =>
          \A k \in 1..2 : step_sankey_figures(ret)[k].annotations # <<>>


(***************************************************************************)
(* src/step_app.py: create_enhanced_topic_graph and create_frequency_charts*)
(***************************************************************************)
\* create_enhanced_topic_graph of step_app.py, on the concepts column (the
\* topics cell of the model's rows): a pair is sorted when it is appended.
step_create_enhanced_topic_graph(df, min_papers, min_connections) ==
    LET topic_counts == CounterOf(FlatMap(LAMBDA row : paper_topics(row.topics), df))
        topic_connections ==
            FlatMap(LAMBDA row : Map(sorted_pair, topic_pairs(paper_topics(row.topics))), df)
        significant == {t \in Range(Keys(topic_counts)) : CountOf(topic_counts, t) >= min_papers}
        pair_counts ==
            CounterOf(Filter(topic_connections,
                             LAMBDA conn : conn[1] \in significant /\ conn[2] \in significant))
        final_pairs == Filter(pair_counts, LAMBDA item : item[2] >= min_connections)
    IN  [raised |-> FALSE,
         topic_counts |-> topic_counts,
         connection_counts |-> pair_counts,
         edges |-> final_pairs,
         nodes |-> Dedup(FlatMap(LAMBDA item : item[1], final_pairs))]

\* Whether create_frequency_charts of step_app.py raises: nlargest on the
\* frame of an empty author Counter.
step_frequency_raises(df) ==
    nlargest_raises(CounterOf(FlatMap(
        LAMBDA row : IF row.authorships.kind = "text"
                     THEN extract_external_authors(row.authorships).external_authors
                     ELSE <<>>,
        df)))

(***************************************************************************)
(* Start-up: the environment, the record loaders, the layout               *)
(***************************************************************************)
\* src/app.py, src/step_app.py, src/testing/dashboard.py and the loader of
\* src/testing/database.py.
Variants == {"app", "step_app", "testing_dashboard", "testing_database"}
\* The programs that build a DatabaseConnection from the environment.
CloudVariants == {"step_app", "testing_dashboard"}
\* The programs that build a layout and run a server.
Dashboards == {"app", "step_app", "testing_dashboard"}

APP_COLUMNS ==
    {"paper_id", "title", "journal_name", "impact_factor", "quartile", "citations",
     "is_open_access", "authorships", "abstract", "abstract_summary", "pdf_url", "type",
     "pmid", "publication_date", "keywords", "concepts", "topics", "publication_year",
     "publication_month"}
STEP_COLUMNS ==
    {"paper_id", "title", "publication_date", "publication_year", "publication_month",
     "journal", "impact_factor", "quartile", "citations", "open_access",
     "publication_type", "authors_text", "concepts_text", "mesh_terms_text",
     "authorships_json", "concepts_json", "mesh_json", "authorships", "concepts",
     "mesh_terms", "authors", "concepts_display", "mesh_terms_display"}
DASHBOARD_COLUMNS ==
    {"paper_id", "title", "publication_date", "publication_year", "publication_month",
     "journal", "impact_factor", "quartile", "citations", "open_access",
     "publication_type", "concepts", "mesh_terms"}
\* pd.DataFrame(columns=['paper_id', 'title', 'citations', 'open_access'])
DASHBOARD_FALLBACK_COLUMNS == {"paper_id", "title", "citations", "open_access"}
DATABASE_COLUMNS ==
    {"paper_id", "title", "journal", "impact_factor", "quartile", "citations",
     "open_access", "authorships", "abstract", "abstract_summary", "pdf_url", "type",
     "pmid", "publication_date", "keywords", "concepts", "topics", "publication_year",
     "publication_month"}

\* The columns of a successful load.
SuccessColumns(v) ==
    CASE v = "app" -> APP_COLUMNS
      [] v = "step_app" -> STEP_COLUMNS
      [] v = "testing_dashboard" -> DASHBOARD_COLUMNS
      [] v = "testing_database" -> DATABASE_COLUMNS

\* The record loader of each program: load_data of app.py and step_app.py
\* and get_papers_summary of testing/dashboard.py let the exception of a
\* failing source through (step_app.py prints it and raises it again);
\* get_papers_summary of testing/database.py logs it and returns
\* pd.DataFrame(), a frame without columns.
load_data(v, src) ==
    IF src.status = "ok"
    THEN [raised |-> FALSE, columns |-> SuccessColumns(v), rows |-> src.rows]
    ELSE IF v = "testing_database"
    THEN [raised |-> FALSE, columns |-> {}, rows |-> <<>>]
    ELSE [raised |-> TRUE, columns |-> {}, rows |-> <<>>]

\* DatabaseConnection.__init__: ValueError without DB_PASSWORD.
DatabaseConnection_raises(env) == ~env.DB_PASSWORD

DEFAULT_MIN_PAPERS == 3
DEFAULT_MIN_CONNECTIONS == 2

\* A figure, the aggregate it shows and when it was computed.
Figure(graph, origin, value) == [graph |-> graph, origin |-> origin, value |-> value]

\* The figures of the layout of app.py, of the results of the five calls.
app_layout(frequency, sankey, inst_country, department, topic) ==
    [raised |-> \/ frequency.raised \/ sankey.raised \/ inst_country.raised
                \/ department.raised \/ topic.raised,
     figures |-> <<Figure("frequency", "start-up", frequency.author_df),
                   Figure("sankey", "start-up", sankey.links),
                   Figure("institution-sankey", "start-up", inst_country.inst_links),
                   Figure("department", "start-up", department.links),
                   Figure("topic-knowledge-graph", "start-up", topic.edges)>>]

\* The figures of the layout of step_app.py: create_department_charts finds
\* no collaboration_network in data_cache and returns its placeholder.
step_layout(frequency_raises, inst_country, topic) ==
    [raised |-> frequency_raises \/ inst_country.raised,
     figures |-> <<Figure("institution-sankey", "start-up", inst_country.inst_links),
                   Figure("department", "start-up", <<>>),
                   Figure("topic-knowledge-graph", "start-up", topic.edges)>>]

\* The figures the module-level code of each dashboard computes for its
\* layout; raised when one of the calls raises.
layout_figures(v, table, order) ==
    CASE v = "app" ->
           app_layout(create_frequency_charts(table),
                      create_sankey_diagram(table),
                      create_institution_country_sankeys(table, order),
                      create_department_charts(table, order),
                      create_enhanced_topic_graph(table, DEFAULT_MIN_PAPERS,
                                                  DEFAULT_MIN_CONNECTIONS))
      [] v = "step_app" ->
           step_layout(step_frequency_raises(table),
                       step_create_institution_country_sankeys(table),
                       step_create_enhanced_topic_graph(table, DEFAULT_MIN_PAPERS,
                                                        DEFAULT_MIN_CONNECTIONS))
      [] v = "testing_dashboard" ->
           [raised |-> FALSE,
            figures |-> <<Figure("publications", "start-up", Len(table))>>]

\* What the data source holds.
SourceTables ==
    { <<>>,
      << Row(Text(<<entry_A, entry_B>>), Text(<<"T1", "T2">>)) >>,
      << Row(Text(<<entry_H, entry_E, entry_F>>), Text(<<"T2", "T1">>)) >>,
      << Row(Text(<<entry_H, entry_E, entry_F>>), Text(<<"T2", "T1">>)),
         Row(Text(<<entry_H, entry_M>>), Text(<<"T1", "T2", "T3">>)),
         Row(Text(<<entry_M, entry_H, entry_B>>), Text(<<"T1">>)) >> }

ServeInit ==
    /\ variant \in Variants
    /\ environ \in [DB_PASSWORD : BOOLEAN]
    /\ source \in [status : {"ok", "connection refused", "query error"}, rows : SourceTables]
    /\ phase = "start"
    /\ loaded = NotLoaded
    /\ layout = NoLayout
    /\ inflight = {}
    /\ papers_df = <<>>
    /\ call = "none"
    /\ ret = NoCall
    /\ rerun = FALSE

\* BibliometricData() builds the DatabaseConnection.  Without DB_PASSWORD
\* step_app.py ends with the ValueError; testing/dashboard.py catches it at
\* module level and goes on with empty frames and bare figures.
Connect ==
    /\ phase = "start"
    /\ variant \in CloudVariants
    /\ IF ~DatabaseConnection_raises(environ)
       THEN phase' = "connected" /\ UNCHANGED <<loaded, papers_df>>
       ELSE IF variant = "step_app"
       THEN phase' = "fatal" /\ UNCHANGED <<loaded, papers_df>>
       ELSE /\ phase' = "loaded"
            /\ loaded' = [raised |-> TRUE, columns |-> DASHBOARD_FALLBACK_COLUMNS]
            /\ papers_df' = <<>>
    /\ UNCHANGED <<call, ret, rerun, variant, environ, source, layout, inflight,
                   deptVars, topVars, scriptVars, pageVars>>

\* The record loader runs.  An exception it lets through ends app.py and
\* step_app.py; testing/dashboard.py catches it at module level.
Load ==
    /\ phase = (IF variant \in CloudVariants THEN "connected" ELSE "start")
    /\ LET r == load_data(variant, source)
       IN  IF ~r.raised
           THEN /\ phase' = "loaded"
                /\ loaded' = [raised |-> FALSE, columns |-> r.columns]
                /\ papers_df' = r.rows
           ELSE IF variant = "testing_dashboard"
           THEN /\ phase' = "loaded"
                /\ loaded' = [raised |-> TRUE, columns |-> DASHBOARD_FALLBACK_COLUMNS]
                /\ papers_df' = <<>>
           ELSE /\ phase' = "fatal"
                /\ loaded' = [raised |-> TRUE, columns |-> {}]
                /\ papers_df' = <<>>
    /\ UNCHANGED <<call, ret, rerun, variant, environ, source, layout, inflight,
                   deptVars, topVars, scriptVars, pageVars>>

\* The module-level code computes the figures and assigns app.layout.
BuildLayout ==
    /\ phase = "loaded"
    /\ variant \in Dashboards
    /\ \E order \in SetOrders :
          \E r \in {layout_figures(variant, papers_df, order)} :
              IF r.raised
              THEN phase' = "fatal" /\ layout' = NoLayout
              ELSE phase' = "layout" /\ layout' = r.figures
    /\ UNCHANGED <<papers_df, call, ret, rerun, variant, environ, source, loaded, inflight,
                   deptVars, topVars, scriptVars, pageVars>>

\* app.run_server(...)
RunServer ==
    /\ phase = "layout"
    /\ phase' = "serving"
    /\ UNCHANGED <<papers_df, call, ret, rerun, variant, environ, source, loaded, layout,
                   inflight, deptVars, topVars, scriptVars, pageVars>>


(***************************************************************************)
(* The callbacks                                                           *)
(***************************************************************************)
\* update_knowledge_graph of app.py, update_topic_graph of step_app.py.
update_knowledge_graph(v, table, min_papers, min_connections) ==
    LET r == IF v = "app"
             THEN create_enhanced_topic_graph(table, min_papers, min_connections)
             ELSE step_create_enhanced_topic_graph(table, min_papers, min_connections)
    IN  [raised |-> r.raised,
         figures |-> <<Figure("topic-knowledge-graph", "request", r.edges)>>]

\* toggle_modal: triggered is the component of ctx.triggered[0], "none" when
\* nothing triggered; is_open is "None", "True" or "False".
\* The mutant of toggle_modal: a table event with an active cell of any
\* column opens the modal.
toggle_modal_any_cell(triggered, active_cell, is_open) ==
    [raised |-> FALSE,
     is_open |->
         IF triggered = "none" THEN FALSE
         ELSE IF triggered = "publications-table" /\ active_cell.kind # "none"
         THEN TRUE
         ELSE IF triggered = "close-paper-modal" THEN FALSE
         ELSE is_open = "True"]

toggle_modal(triggered, active_cell, is_open) ==
    [raised |-> FALSE,
     is_open |->
         IF triggered = "none" THEN FALSE
         ELSE IF /\ triggered = "publications-table"
                 /\ active_cell.kind # "none"
                 /\ active_cell.column_id = "details"
         THEN TRUE
         ELSE IF triggered = "close-paper-modal" THEN FALSE
         ELSE is_open = "True"]

\* show_paper_details: app.py reads row page_current * page_size + row of
\* virtual_data and takes an empty list for data; step_app.py reads row
\* active_cell["row"] and gives the hint for an empty list.  An index out of
\* range is caught and rendered as the error text.
show_paper_details(v, active_cell, virtual_data, page_current, page_size) ==
    LET idx == IF v = "app" THEN page_current * page_size + active_cell.row
               ELSE active_cell.row
        hint == \/ active_cell.kind = "none"
                \/ virtual_data.kind = "none"
                \/ v # "app" /\ virtual_data.value = <<>>
    IN  IF hint THEN [raised |-> FALSE, kind |-> "hint", title |-> ""]
        ELSE IF idx + 1 \in 1..Len(virtual_data.value)
        THEN [raised |-> FALSE, kind |-> "details", title |-> virtual_data.value[idx + 1]]
        ELSE [raised |-> FALSE, kind |-> "error", title |-> ""]

\* update_filter: '' for no search value, else one `contains` clause for
\* each searched column.
update_filter(v, search_value) ==
    [raised |-> FALSE,
     filter_query |->
         IF search_value.kind = "none" \/ search_value.s = <<>> THEN <<>>
         ELSE Map(LAMBDA column : <<column, "contains", search_value.s>>,
                  IF v = "app" THEN <<"title", "authors", "journal_name", "abstract">>
                  ELSE <<"title", "authors", "journal">>)]

\* int(selected_size) for the option values of the page size select;
\* TypeError for None.
update_page_size(selected_size) ==
    IF selected_size.kind = "none" THEN [raised |-> TRUE, page_size |-> 0]
    ELSE [raised |-> FALSE,
          page_size |-> CASE selected_size.s = <<"10">> -> 10
                          [] selected_size.s = <<"25">> -> 25
                          [] OTHER -> 50]

\* show_topic_papers.  app.py calls create_topic_knowledge_graph, a name
\* the module does not define: NameError once a node was clicked.
\* step_app.py lists the rows of a copy of the table whose concepts name
\* the clicked node.
show_topic_papers(v, table, triggered, clickData) ==
    IF v = "app"
    THEN IF clickData.kind = "none"
         THEN [raised |-> FALSE, is_open |-> FALSE, children |-> <<>>]
         ELSE [raised |-> TRUE, is_open |-> FALSE, children |-> <<>>]
    ELSE IF triggered \in {"none", "close-topic-modal"} \/ clickData.kind = "none"
    THEN [raised |-> FALSE, is_open |-> FALSE, children |-> <<>>]
    ELSE LET matched == {i \in 1..Len(table) : table[i].topics.kind = "text"}
             results == {i \in matched : Contains(table[i].topics.value, clickData.label)}
         IN  [raised |-> FALSE, is_open |-> TRUE,
              children |-> SelectSeq([i \in 1..Len(table) |-> i], LAMBDA i : i \in results)]

\* The mutant of table_after_callback: show_topic_papers keeps the rows it
\* matched in the module's table.
table_after_callback_in_place(fn, table) ==
    IF fn = "show_topic_papers"
    THEN SelectSeq(table, LAMBDA row : row.topics.kind = "text" /\ Len(row.topics.value) > 1)
    ELSE table

\* The table a callback leaves behind: no callback assigns papers_df, and
\* show_topic_papers of step_app.py filters a copy.
table_after_callback(fn, table) == table

NoCell == [kind |-> "none"]
Cell(row, column_id) == [kind |-> "cell", row |-> row, column_id |-> column_id]
NoData == [kind |-> "none"]
Data(rows) == [kind |-> "list", value |-> rows]
NoClick == [kind |-> "none"]
Click(label) == [kind |-> "click", label |-> label]

Request(fn, args) == [fn |-> fn, args |-> args]

\* The callback invocations the browser sends.
Requests ==
    { Request("update_knowledge_graph", [min_papers |-> mp, min_connections |-> mc]) :
          mp \in {1, DEFAULT_MIN_PAPERS}, mc \in {1} }
    \cup { Request("toggle_modal", [triggered |-> a[1], active_cell |-> a[2], is_open |-> a[3]]) :
               a \in { <<"none", NoCell, "None">>,
                       <<"publications-table", Cell(0, "details"), "False">>,
                       <<"publications-table", Cell(0, "title"), "True">>,
                       <<"close-paper-modal", NoCell, "True">> } }
    \cup { Request("show_paper_details",
                   [active_cell |-> a[1], virtual_data |-> a[2], page_current |-> a[3],
                    page_size |-> a[4]]) :
               a \in { <<NoCell, Data(<<"P1", "P2">>), 0, 1>>,
                       <<Cell(0, "details"), Data(<<"P1", "P2">>), 1, 1>>,
                       <<Cell(0, "details"), Data(<<>>), 0, 1>> } }
    \cup { Request("update_filter", [search_value |-> s]) : s \in {None, Str(<<"cancer">>)} }
    \cup { Request("update_page_size", [selected_size |-> s]) : s \in {None, Str(<<"25">>)} }
    \cup { Request("show_topic_papers", [triggered |-> a[1], clickData |-> a[2]]) :
               a \in { <<"topic-knowledge-graph", NoClick>>,
                       <<"topic-knowledge-graph", Click("T1")>> } }
    \cup { Request("serve_layout", [path |-> "/"]) }

MaxInFlight == 2

\* The server receives a request; its callback has not run yet.
\* testing/dashboard.py registers no callback.
Dispatch ==
    /\ phase = "serving"
    /\ Cardinality(inflight) < MaxInFlight
    /\ \E r \in Requests \ inflight :
          /\ variant = "testing_dashboard" => r.fn = "serve_layout"
          /\ inflight' = inflight \cup {r}
    /\ UNCHANGED <<papers_df, call, ret, rerun, variant, environ, source, phase, loaded,
                   layout, deptVars, topVars, scriptVars, pageVars>>

\* The callback of a received request runs and returns.
Serves(r, value) ==
    /\ r \in inflight
    /\ inflight' = inflight \ {r}
    /\ call' = r.fn
    /\ ret' = [args |-> r.args] @@ value
    /\ rerun' = (call = r.fn)
    /\ papers_df' = table_after_callback(r.fn, papers_df)
    /\ UNCHANGED <<variant, environ, source, phase, loaded, layout, deptVars, topVars, scriptVars, pageVars>>

\* The layout is sent as it was built at start-up.
Serve_layout ==
    \E r \in inflight :
        /\ r.fn = "serve_layout"
        /\ Serves(r, [raised |-> FALSE, figures |-> layout])

Serve_update_knowledge_graph ==
    \E r \in inflight :
        /\ r.fn = "update_knowledge_graph"
        /\ Serves(r, update_knowledge_graph(variant, papers_df, r.args.min_papers,
                                            r.args.min_connections))

Serve_toggle_modal ==
    \E r \in inflight :
        /\ r.fn = "toggle_modal"
        /\ Serves(r, toggle_modal(r.args.triggered, r.args.active_cell, r.args.is_open))

Serve_show_paper_details ==
    \E r \in inflight :
        /\ r.fn = "show_paper_details"
        /\ Serves(r, show_paper_details(variant, r.args.active_cell, r.args.virtual_data,
                                        r.args.page_current, r.args.page_size))

Serve_update_filter ==
    \E r \in inflight :
        /\ r.fn = "update_filter"
        /\ Serves(r, update_filter(variant, r.args.search_value))

Serve_update_page_size ==
    \E r \in inflight :
        /\ r.fn = "update_page_size"
        /\ Serves(r, update_page_size(r.args.selected_size))

Serve_show_topic_papers ==
    \E r \in inflight :
        /\ r.fn = "show_topic_papers"
        /\ Serves(r, show_topic_papers(variant, papers_df, r.args.triggered, r.args.clickData))

ServeNext ==
    \/ Connect
    \/ Load
    \/ BuildLayout
    \/ RunServer
    \/ Dispatch
    \/ Serve_layout
    \/ Serve_update_knowledge_graph
    \/ Serve_toggle_modal
    \/ Serve_show_paper_details
    \/ Serve_update_filter
    \/ Serve_update_page_size
    \/ Serve_show_topic_papers

ServeSpecInit == ServeInit /\ DeptIdle /\ TopIdle /\ ScriptIdle /\ PageIdle
\* Start-up of each program and the requests it then serves.
ServeSpec == ServeSpecInit /\ [][ServeNext]_vars


\* C15: when the data source fails during loading, the record loader lets no
\* exception through to its caller and returns an empty table with the
\* columns of a successful load, and start-up goes on with zero rows.
C15_LoadFailureGivesEmptyTable ==
    (/\ phase \notin {"start", "connected"}
     /\ source.status # "ok"
     /\ variant \in CloudVariants => environ.DB_PASSWORD) =>
        /\ ~loaded.raised
        /\ loaded.columns = SuccessColumns(variant)
        /\ papers_df = <<>>
        /\ phase # "fatal"

\* C16: without DB_PASSWORD in the environment, start-up of every program
\* that builds a DatabaseConnection ends fatally: no layout is built and the
\* server is never run.
C16_MissingPasswordIsFatal ==
    (variant \in CloudVariants /\ ~environ.DB_PASSWORD /\ phase # "start") =>
        phase = "fatal" /\ layout = NoLayout

\* The table start-up leaves in papers_df: the rows of the source, none when
\* testing/dashboard.py caught a failure.
LoadedTable ==
    IF variant \in CloudVariants /\ DatabaseConnection_raises(environ) THEN <<>>
    ELSE load_data(variant, source).rows

\* The result of the callback fn on args when no other callback runs.
ResultAlone(fn, args, value) ==
    \E alone \in
        CASE fn = "serve_layout" ->
               { [raised |-> FALSE, figures |-> layout_figures(variant, LoadedTable, order).figures] :
                     order \in SetOrders }
          [] fn = "update_knowledge_graph" ->
               { update_knowledge_graph(variant, LoadedTable, args.min_papers,
                                        args.min_connections) }
          [] fn = "toggle_modal" ->
               { toggle_modal(args.triggered, args.active_cell, args.is_open) }
          [] fn = "show_paper_details" ->
               { show_paper_details(variant, args.active_cell, args.virtual_data,
                                    args.page_current, args.page_size) }
          [] fn = "update_filter" -> { update_filter(variant, args.search_value) }
          [] fn = "update_page_size" -> { update_page_size(args.selected_size) }
          [] fn = "show_topic_papers" ->
               { show_topic_papers(variant, LoadedTable, args.triggered, args.clickData) } :
        value = [args |-> args] @@ alone

C18_FiguresRecomputedPerRequest ==
    (phase = "serving" /\ call \in {"serve_layout", "update_knowledge_graph"}) =>
        \A k \in 1..Len(ret.figures) : ret.figures[k].origin = "request"

\* C25: show_paper_details displays the record of the clicked row, the
\* element of the filtered and sorted data at index page_current * page_size
\* + active_cell.row; an index past the end of the data gives the error
\* panel.
C25_DetailsOfClickedRow ==
    (/\ call = "show_paper_details"
     /\ ret.args.active_cell.kind = "cell"
     /\ ret.args.virtual_data.kind = "list") =>
        LET data == ret.args.virtual_data.value
            index == ret.args.page_current * ret.args.page_size + ret.args.active_cell.row
        IN  IF index < Len(data)
            THEN ret.kind = "details" /\ ret.title = data[index + 1]
            ELSE ret.kind = "error"

\* C27: a click on a topic node opens the topic-papers modal listing exactly
\* the publications that carry the topic; show_topic_papers returns its
\* (is_open, children) pair and raises nothing for every click, also on a
\* topic no publication carries.
C27_TopicClickListsPapers ==
    (call = "show_topic_papers" /\ ret.args.clickData.kind = "click") =>
        /\ ~ret.raised
        /\ ret.is_open
        /\ Range(ret.children) =
               {i \in 1..Len(papers_df) :
                   Contains(paper_topics(papers_df[i].topics), ret.args.clickData.label)}


(***************************************************************************)
(* The author flow diagram when a name is home here and external there     *)
(***************************************************************************)
\* data_cache = load_data() of step_app.py: the seven keys load_data sets.
step_data_cache(table) ==
    [papers |-> table, authors |-> <<>>, journals |-> <<>>, topics |-> <<>>,
     author_productivity |-> <<>>,
     institution_collaborations |-> extract_collaborations_from_papers(table).inst_df,
     country_collaborations |-> extract_collaborations_from_papers(table).country_df]

\* create_sankey_diagram of step_app.py: data_cache has no key
\* 'collaboration_network', load_data never sets it, and the subscript
\* raises KeyError before any node is built.
step_create_sankey_diagram(table) ==
    LET data_cache == step_data_cache(table)
    IN  IF "collaboration_network" \notin DOMAIN data_cache
        THEN [SankeyRaised EXCEPT !.raised = TRUE] @@ [placeholder |-> FALSE]
        ELSE IF data_cache["collaboration_network"] = <<>>
        THEN [SankeyRaised EXCEPT !.raised = FALSE] @@ [placeholder |-> TRUE]
        ELSE [SankeyRaised EXCEPT !.raised = FALSE] @@ [placeholder |-> FALSE]

\* create_department_charts of step_app.py: data_cache.get(
\* 'collaboration_network', pd.DataFrame()) is the empty frame when the key
\* is absent, and the two placeholder figures are returned.  The department
\* lists of a frame with rows are not built here: no data_cache has the key.
step_create_department_charts(table) ==
    LET data_cache == step_data_cache(table)
        collab_df == IF "collaboration_network" \in DOMAIN data_cache
                     THEN data_cache["collaboration_network"] ELSE <<>>
    IN  IF collab_df = <<>>
        THEN [raised |-> FALSE, placeholder |-> TRUE,
              figures |-> <<create_empty_figure("Department Network"),
                            create_empty_figure("Department Bar Chart")>>]
        ELSE [raised |-> FALSE, placeholder |-> FALSE,
              figures |-> << [traces |-> 1, annotations |-> <<>>],
                             [traces |-> 1, annotations |-> <<>>] >>]

\* The author H on a publication that lists only a foreign institution.
entry_H_abroad == Entry("H", <<INST_FOREIGN_U>>, <<"US">>, <<>>)

FlowRows ==
    { Row(Text(<<entry_H, entry_E>>), Text(<<"T1">>)),
      Row(Text(<<entry_R, entry_H_abroad>>), Text(<<"T1">>)),
      Row(Text(<<entry_H, entry_E, entry_F>>), Text(<<"T1">>)),
      Row(Text(<<entry_M, entry_H, entry_B>>), Text(<<"T1">>)) }
MaxFlowPapers == 2

FlowInit ==
    /\ papers_df \in TablesOver(FlowRows, MaxFlowPapers)
    /\ call = "none"
    /\ ret = NoCall
    /\ rerun = FALSE

Call_step_create_sankey_diagram ==
    Returns("step_create_sankey_diagram", step_create_sankey_diagram(papers_df))

Call_step_create_department_charts ==
    Returns("step_create_department_charts", step_create_department_charts(papers_df))

FlowNext ==
    \/ Call_create_sankey_diagram
    \/ Call_create_institution_country_sankeys
    \/ Call_step_create_sankey_diagram
    \/ Call_step_create_department_charts
    \/ Call_step_create_institution_country_sankeys

FlowSpecInit == FlowInit /\ DeptIdle /\ TopIdle /\ ServeIdle /\ ScriptIdle /\ PageIdle
\* The flow diagrams of tables in which one name is home author of one
\* publication and external author of another.
FlowSpec == FlowSpecInit /\ [][FlowNext]_vars

\* C19: the author flow diagram has one node for each entity, every link
\* starts in the block of the home authors and ends in the block of the
\* external authors, also when a name is among the top home authors and
\* among the top external authors.
C19_AuthorFlowBipartite ==
    (call = "create_sankey_diagram" /\ ~ret.raised) =>
        LET home == Len(ret.top_khcc_authors)
        IN  /\ \A i, j \in 1..Len(ret.nodes) : ret.nodes[i] = ret.nodes[j] => i = j
            /\ \A k \in 1..Len(ret.links) :
                  /\ ret.links[k].source \in 0..(home - 1)
                  /\ ret.links[k].target \in home..(Len(ret.nodes) - 1)

\* C24: in step_app.py create_sankey_diagram and create_department_charts
\* raise no exception and return a "data unavailable" placeholder figure when
\* the collaboration-network table is empty or absent from the data cache
\* load_data built.
C24_PlaceholderWithoutNetwork ==
    LET data_cache == step_data_cache(papers_df)
    IN  (/\ call \in {"step_create_sankey_diagram", "step_create_department_charts"}
         /\ \/ "collaboration_network" \notin DOMAIN data_cache
            \/ data_cache["collaboration_network"] = <<>>) =>
            ~ret.raised /\ ret.placeholder


(***************************************************************************)
(* The cutoffs of the topic graph                                          *)
(***************************************************************************)
TopicNames == {"T1", "T2", "T3"}

\* The publications of the table whose topics name the topic.
PublicationsOf(topic) ==
    {i \in 1..Len(papers_df) : Contains(paper_topics(papers_df[i].topics), topic)}

\* How often the two topics stand together in the topics of one publication:
\* the places i < j of a publication that hold the two.
CoOccurrences(a, b) ==
    Cardinality({p \in (1..Len(papers_df)) \X (1..3) \X (1..3) :
                    LET ts == paper_topics(papers_df[p[1]].topics)
                    IN  /\ p[2] < p[3]
                        /\ p[3] <= Len(ts)
                        /\ {<<ts[p[2]], ts[p[3]]>>} \subseteq {<<a, b>>, <<b, a>>}})

\* Whether the graph has the edge between the two topics.
HasEdge(graph, a, b) ==
    \E k \in 1..Len(graph.edges) : graph.edges[k][1] \in {<<a, b>>, <<b, a>>}

\* C20: the topic graph has the edge between two topics exactly when each of
\* the two occurs in at least min_papers publications and the two co-occur
\* at least min_connections times; every node occurs in at least min_papers
\* publications, and a higher cutoff adds no node and no edge.
C20_TopicEdgesMeetCutoffs ==
    (call = "create_enhanced_topic_graph" /\ ~ret.raised) =>
        /\ \A a, b \in TopicNames :
              HasEdge(ret, a, b) <=>
                  /\ Cardinality(PublicationsOf(a)) >= ret.min_papers
                  /\ Cardinality(PublicationsOf(b)) >= ret.min_papers
                  /\ CoOccurrences(a, b) >= ret.min_connections
        /\ \A k \in 1..Len(ret.nodes) :
              Cardinality(PublicationsOf(ret.nodes[k])) >= ret.min_papers
        /\ \A raised \in {<<ret.min_papers + 1, ret.min_connections>>,
                          <<ret.min_papers, ret.min_connections + 1>>} :
              LET higher == create_enhanced_topic_graph(papers_df, raised[1], raised[2])
              IN  /\ Range(higher.nodes) \subseteq Range(ret.nodes)
                  /\ Range(Keys(higher.edges)) \subseteq Range(Keys(ret.edges))

\* C30: the topic graph has no edge from a topic to itself: every edge joins
\* two distinct topic names, also when a publication lists a topic name
\* more than once.
C30_NoSelfEdge ==
    (call = "create_enhanced_topic_graph" /\ ~ret.raised) =>
        \A k \in 1..Len(ret.edges) : ret.edges[k][1][1] # ret.edges[k][1][2]


(***************************************************************************)
(* The home test by identifier and the home test by display name           *)
(***************************************************************************)
\* The home identifier under another display name, and the home display name
\* under another identifier.
INST_KHCC_RENAMED == [id |-> KHCC_ID, display_name |-> "KHCC", country_code |-> "JO"]
INST_NAMESAKE == [id |-> "Z", display_name |-> KHCC_NAME, country_code |-> "JO"]

IdentInstitutions == {INST_KHCC, INST_FOREIGN_U, INST_KHCC_RENAMED, INST_NAMESAKE}

MaxIdentAuthors == 2
IdentNames == <<"M", "B", "C", "D">>

\* The authorships lists of 2..n authors, each of one institution.
RECURSIVE IdentLists(_)
IdentLists(n) ==
    IF n = 0 THEN { <<>> }
    ELSE LET shorter == IdentLists(n - 1)
         IN  shorter \cup { Append(auth, Entry(IdentNames[Len(auth) + 1], <<inst>>, <<>>, <<>>)) :
                                auth \in shorter, inst \in IdentInstitutions }

IdentInit ==
    /\ papers_df \in { <<Row(Text(auth), Text(<<"T1">>))>> :
                          auth \in {a \in IdentLists(MaxIdentAuthors) : Len(a) >= 2} }
    /\ call = "none"
    /\ ret = NoCall
    /\ rerun = FALSE

IdentNext ==
    \/ Call_extract_khcc_and_collaborator_links
    \/ Call_extract_khcc_authors
    \/ Call_extract_external_authors
    \/ Call_create_sankey_diagram

IdentSpecInit == IdentInit /\ DeptIdle /\ TopIdle /\ ServeIdle /\ ScriptIdle /\ PageIdle
\* The pair builders on publications whose institutions carry the home
\* identifier, the home display name, both or neither.
IdentSpec == IdentSpecInit /\ [][IdentNext]_vars

\* The entries of the list the test classifies home.
HomeBy(auth, Test(_)) == {k \in 1..Len(auth) : Test(auth[k])}

\* Whether the test classifies no entry or every entry home, so that the
\* publication has no (home, external) pair.
NoPairBy(auth, Test(_)) == HomeBy(auth, Test) \in {{}, 1..Len(auth)}

\* C21: the home test by identifier and the home test by display name are
\* not equivalent.  On one publication extract_khcc_and_collaborator_links and
\* the pair loop of create_sankey_diagram give the same pairs when the two
\* tests classify every entry alike, and different pairs when they classify
\* an entry differently, unless both find no pair at all.
C21_IdAndNameTestsDiffer ==
    (call = "extract_khcc_and_collaborator_links" /\ ~ret.raised) =>
        LET cell == papers_df[ret.arg].authorships
            auth == cell.value
        IN  ~sankey_pairs(cell).raised =>
                (Range(ret.links) # Range(sankey_pairs(cell).pairs)
                    <=> /\ \E k \in 1..Len(auth) :
                               is_khcc_by_id(auth[k]) # is_khcc_by_name(auth[k])
                        /\ ~(NoPairBy(auth, is_khcc_by_id) /\ NoPairBy(auth, is_khcc_by_name)))

\* The first author is of the home identifier under another display name:
\* the display-name test finds no home author and no pair, the loop of
\* create_sankey_diagram pairs the author with the external author.
C21_Witness ==
    /\ call = "extract_khcc_and_collaborator_links"
    /\ ~ret.raised
    /\ EntriesOf(ret.arg)[1].institutions = <<INST_KHCC_RENAMED>>
    /\ is_khcc_by_id(EntriesOf(ret.arg)[1]) /\ ~is_khcc_by_name(EntriesOf(ret.arg)[1])
    /\ ret.links = <<>>
    /\ sankey_pairs(papers_df[ret.arg].authorships).pairs = << <<"M", "B">> >>


(***************************************************************************)
(* The entities a top-N selection leaves out                               *)
(***************************************************************************)
\* The cutoff of the selection form that ran.
CutoffOf(form) ==
    CASE form = "most_common" -> N_KHCC_AUTHORS
      [] form = "nlargest" -> N_FREQUENCY
      [] form = "sort_tail" -> N_DEPARTMENTS
      [] form = "sorted_head" -> STEP_N_DEPARTMENTS

\* C22: each top-N selection returns entities of maximal frequency: no
\* entity left out has a greater count than a selected one, and a Counter of
\* at most N entities is selected whole.
C22_TopNOfMaximalFrequency ==
    spc # "counting" =>
        /\ \A out \in Range(counter) \ Range(selection), kept \in Range(selection) :
              out[2] <= kept[2]
        /\ Len(counter) <= CutoffOf(spc) => Range(selection) = Range(counter)
        /\ Len(counter) >= CutoffOf(spc) => Len(selection) = CutoffOf(spc)

\* More departments than the cutoff were counted, the last of them twice:
\* the ascending sort and tail keep it and leave out one counted once.
C22_Witness ==
    /\ spc = "sort_tail"
    /\ Len(counter) > N_DEPARTMENTS
    /\ counter[Len(counter)][2] = 2
    /\ counter[Len(counter)] \in Range(selection)
    /\ \E out \in Range(counter) \ Range(selection) : out[2] = 1


(***************************************************************************)
(* The extraction scripts and the table khcc_authors                       *)
(* (src/extract_khcc_authors.py on SQLite, src/testing/database.py on SQL  *)
(* Server)                                                                 *)
(*                                                                         *)
(* The table is [rows, seq]: the committed rows, each with the id the      *)
(* database gave it, and the last id given.  A paper_id is [full, key]:    *)
(* whether the text starts with 'https://openalex.org/', and the rest.     *)
(***************************************************************************)
Scripts == {"extract_khcc_authors", "testing_database"}

\* paper_id = f'https://openalex.org/{paper_id}' unless it starts with it.
full_url(paper_id) == [paper_id EXCEPT !.full = TRUE]

\* The values of one execute(insert_query, ...): author.get('author', {})
\* .get('id', ''), .get('display_name', ''), author.get('author_position',
\* ''), author.get('is_corresponding', False).
author_row(paper_id, author) ==
    [paper_id |-> full_url(paper_id),
     author_id |-> IF author.has_author /\ author.author_id # NoKey
                   THEN author.author_id ELSE "",
     author_name |-> IF author.has_author /\ author.display_name # NoKey
                     THEN author.display_name ELSE "",
     author_position |-> author.author_position,
     is_corresponding |-> author.is_corresponding]

SameKey(x, r) == x.paper_id = r.paper_id /\ x.author_id = r.author_id

\* The mutant of insert_or_replace: a plain INSERT into a table without the
\* UNIQUE constraint.
insert_plain(tbl, r) ==
    [rows |-> tbl.rows \cup {[id |-> tbl.seq + 1] @@ r}, seq |-> tbl.seq + 1]

\* INSERT OR REPLACE under UNIQUE(paper_id, author_id): the row of the same
\* key is deleted and the new row gets the next id.
insert_or_replace(tbl, r) ==
    [rows |-> {x \in tbl.rows : ~SameKey(x, r)} \cup {[id |-> tbl.seq + 1] @@ r},
     seq |-> tbl.seq + 1]

\* MERGE ... ON paper_id, author_id: the matched row is updated in place, an
\* unmatched one is inserted with the next IDENTITY value.
merge(tbl, r) ==
    IF \E x \in tbl.rows : SameKey(x, r)
    THEN [rows |-> {IF SameKey(x, r) THEN [id |-> x.id] @@ r ELSE x : x \in tbl.rows},
          seq |-> tbl.seq]
    ELSE [rows |-> tbl.rows \cup {[id |-> tbl.seq + 1] @@ r}, seq |-> tbl.seq + 1]

\* cursor.execute(insert_query, ...) once for each row, in order.
RECURSIVE execute_all(_, _, _)
execute_all(script, tbl, rs) ==
    IF rs = <<>> THEN tbl
    ELSE execute_all(script,
                     IF script = "extract_khcc_authors" THEN insert_or_replace(tbl, Head(rs))
                     ELSE merge(tbl, Head(rs)),
                     Tail(rs))

\* extract_khcc_authors(conn): the loop over the papers up to the first one
\* whose authorships is None (TypeError of json.loads, which the handler of
\* json.JSONDecodeError lets through), the table as the connection sees it,
\* and the count of the execute calls.
extract_khcc_authors_conn(script, tbl, papers) ==
    LET raising == {i \in 1..Len(papers) : papers[i].authorships.kind = "null"}
        last == IF raising = {} THEN Len(papers)
                ELSE (CHOOSE i \in raising : \A j \in raising : i <= j) - 1
        executed ==
            FlatMap(LAMBDA i :
                        IF papers[i].authorships.kind = "invalid" THEN <<>>
                        ELSE Map(LAMBDA a : author_row(papers[i].paper_id, a),
                                 Filter(papers[i].authorships.value, is_khcc_by_id)),
                    [i \in 1..last |-> i])
    IN  [raised |-> raising # {},
         table |-> execute_all(script, tbl, executed),
         authors_count |-> Len(executed)]

\* main(): the table is created if it is missing, the extraction runs and
\* commits; an exception is printed and the connection rolled back.  SQLite
\* rolls the id sequence back with the rows, SQL Server keeps the IDENTITY
\* values it has given.
main(script, tbl, papers) ==
    LET r == extract_khcc_authors_conn(script, tbl, papers)
    IN  IF r.raised
        THEN [raised |-> TRUE, saved |-> 0,
              table |-> IF script = "extract_khcc_authors" THEN tbl
                        ELSE [tbl EXCEPT !.seq = r.table.seq]]
        ELSE [raised |-> FALSE, saved |-> r.authors_count, table |-> r.table]

\* The papers of the scripts.
PaperId(full, key) == [full |-> full, key |-> key]

ScriptEntry(author_id, name, institutions, position) ==
    Entry(name, institutions, <<>>, <<>>)
        @@ [author_id |-> author_id, author_position |-> position,
            is_corresponding |-> (position = "first")]

Paper(paper_id, authorships) ==
    [paper_id |-> paper_id, authorships |-> authorships, topics |-> Null]

\* A home and an external author; one author id in two home entries; two
\* home authors without an id; text json.loads rejects; NULL; two home
\* authors under a paper_id that lacks the URL prefix.
ScriptPapers ==
    { Paper(PaperId(TRUE, "W1"),
            Text(<<ScriptEntry("A1", "H", <<INST_KHCC>>, "first"),
                   ScriptEntry("A9", "E", <<INST_OTHER_U>>, "last")>>)),
      Paper(PaperId(TRUE, "W2"),
            Text(<<ScriptEntry("A1", "H", <<INST_KHCC>>, "first"),
                   ScriptEntry("A1", "H", <<INST_FOREIGN_U, INST_KHCC>>, "last")>>)),
      Paper(PaperId(TRUE, "W3"),
            Text(<<ScriptEntry(NoKey, "N", <<INST_KHCC>>, "first"),
                   ScriptEntry(NoKey, "Q", <<INST_KHCC>>, "last")>>)),
      Paper(PaperId(TRUE, "W4"), Invalid),
      Paper(PaperId(TRUE, "W5"), Null),
      Paper(PaperId(FALSE, "W6"),
            Text(<<ScriptEntry("A2", "R", <<INST_KHCC>>, "first"),
                   ScriptEntry("A1", "H", <<INST_KHCC>>, "last")>>)) }

MaxScriptPapers == 2
MaxRuns == 2

\* The tables of up to n of the papers, none of them twice.
RECURSIVE PaperTables(_)
PaperTables(n) ==
    IF n = 0 THEN { <<>> }
    ELSE LET shorter == PaperTables(n - 1)
         IN  shorter \cup UNION { { Append(table, paper) :
                                        paper \in ScriptPapers \ Range(table) } :
                                      table \in shorter }

ScriptInit ==
    /\ papers_df \in PaperTables(MaxScriptPapers)
    /\ call = "none"
    /\ ret = NoCall
    /\ rerun = FALSE
    /\ variant \in Scripts
    /\ environ = [DB_PASSWORD |-> FALSE]
    /\ source = [status |-> "none", rows |-> <<>>]
    /\ phase = "idle"
    /\ loaded = NotLoaded /\ layout = NoLayout /\ inflight = {}
    /\ khcc_authors_table = NoAuthors
    /\ runs = 0

\* python extract_khcc_authors.py, or main() of testing/database.py.
Run_main ==
    /\ variant \in Scripts
    /\ runs < MaxRuns
    /\ \E r \in {main(variant, khcc_authors_table, papers_df)} :
          /\ khcc_authors_table' = r.table
          /\ ret' = [raised |-> r.raised, saved |-> r.saved]
    /\ call' = "main"
    /\ rerun' = (call = "main")
    /\ runs' = runs + 1
    /\ UNCHANGED <<papers_df, variant, environ, source, phase, loaded, layout, inflight,
                   deptVars, topVars, pageVars>>

ScriptNext == Run_main

ScriptSpecInit == ScriptInit /\ DeptIdle /\ TopIdle /\ PageIdle
\* The extraction script run up to MaxRuns times on one papers table.
ScriptSpec == ScriptSpecInit /\ [][ScriptNext]_vars

\* The home entries of the papers whose authorships json.loads accepts, as
\* the rows the script is to write.
HomeRows ==
    UNION { { author_row(papers_df[i].paper_id, a) :
                a \in {b \in Range(papers_df[i].authorships.value) : is_khcc_by_id(b)} } :
            i \in {j \in 1..Len(papers_df) : papers_df[j].authorships.kind = "text"} }

\* The rows of the table without the id the database gave them.
Tuples(tbl) ==
    { [paper_id |-> x.paper_id, author_id |-> x.author_id, author_name |-> x.author_name,
       author_position |-> x.author_position, is_corresponding |-> x.is_corresponding] :
      x \in tbl.rows }

\* C23: a paper whose authorships is invalid JSON text or NULL is skipped:
\* the run does not abort, and every home author of every other paper is in
\* khcc_authors after the run.
C23_UnparsablePaperSkipped ==
    call = "main" =>
        /\ ~ret.raised
        /\ \A r \in HomeRows : \E x \in khcc_authors_table.rows : SameKey(x, r)

\* Whether the table holds at most one row for each (paper_id, author_id).
OneRowPerKey(tbl) == \A x, y \in tbl.rows : SameKey(x, y) => x = y

\* C28: a run of the script on the unchanged papers table leaves at most one
\* row for each (paper_id, author_id) in khcc_authors, and a run that follows
\* another leaves the same set of (paper_id, author_id, author_name,
\* author_position, is_corresponding) tuples.
C28_RerunIdempotent ==
    [][/\ call' = "main" => OneRowPerKey(khcc_authors_table')
       /\ (call = "main" /\ call' = "main") =>
              Tuples(khcc_authors_table') = Tuples(khcc_authors_table)]_vars

\* The SQLite script has run twice and written rows: every row of the first
\* run was replaced, and carries an id the second run gave.
C28_Witness ==
    /\ call = "main" /\ rerun /\ runs = 2
    /\ variant = "extract_khcc_authors"
    /\ ~ret.raised
    /\ khcc_authors_table.rows # {}
    /\ \A x \in khcc_authors_table.rows : x.id > ret.saved

\* C29: the count the script reports as saved is the number of rows of
\* khcc_authors after a run that started from the empty table.
C29_SavedCountIsRowCount ==
    (call = "main" /\ runs = 1 /\ ~ret.raised) =>
        ret.saved = Cardinality(khcc_authors_table.rows)


(***************************************************************************)
(* The paper-details modal over a sequence of events                       *)
(*                                                                         *)
(* The browser handles one event at a time: it calls toggle_modal with the *)
(* property is_open of paper-modal as State and writes the value returned  *)
(* to that property.                                                       *)
(***************************************************************************)
MaxRow == 3
TableColumns == {"details", "title", "journal"}

\* What triggers toggle_modal, with the active cell of the table at that
\* time: nothing (the call at page load), a table event, the close button.
ModalEvents ==
    { [triggered |-> "none", active_cell |-> NoCell] }
    \cup { [triggered |-> "publications-table", active_cell |-> c] :
               c \in {NoCell} \cup { Cell(row, column_id) :
                                       row \in 0..MaxRow, column_id \in TableColumns } }
    \cup { [triggered |-> "close-paper-modal", active_cell |-> c] :
               c \in {NoCell, Cell(0, "details"), Cell(MaxRow, "title")} }

ModalInit ==
    /\ variant \in {"app", "step_app"}
    /\ phase = "serving"
    /\ environ = [DB_PASSWORD |-> TRUE]
    /\ source = [status |-> "ok", rows |-> <<>>]
    /\ loaded = [raised |-> FALSE, columns |-> SuccessColumns(variant)]
    /\ layout = NoLayout /\ inflight = {}
    /\ papers_df = <<>>
    /\ call = "none"
    /\ ret = NoCall
    /\ rerun = FALSE
    /\ paper_modal = "None"

\* One event: the callback runs on the State of the modal and its return
\* value becomes the property is_open.
Event_toggle_modal ==
    /\ phase = "serving"
    /\ \E e \in ModalEvents :
          \E r \in {toggle_modal(e.triggered, e.active_cell, paper_modal)} :
              /\ ret' = [args |-> [triggered |-> e.triggered, active_cell |-> e.active_cell,
                                   is_open |-> paper_modal]] @@ r
              /\ paper_modal' = IF r.is_open THEN "True" ELSE "False"
    /\ call' = "toggle_modal"
    /\ rerun' = (call = "toggle_modal")
    /\ UNCHANGED <<papers_df, serveVars, deptVars, topVars, scriptVars>>

ModalNext == Event_toggle_modal

ModalSpecInit == ModalInit /\ DeptIdle /\ TopIdle /\ ScriptIdle
\* The paper-details modal under any sequence of table and button events.
ModalSpec == ModalSpecInit /\ [][ModalNext]_vars

\* Whether the event is a table event on a cell of the column "details".
DetailsClick(e) ==
    /\ e.triggered = "publications-table"
    /\ e.active_cell.kind = "cell"
    /\ e.active_cell.column_id = "details"

\* C26: the modal is closed when no input has triggered; a table event on a
\* cell of the column "details" opens it; a click on the close button closes
\* it whatever it was; any other table event leaves it open or closed as it
\* was.  So a closed modal opens only through a details-cell click.
C26_ModalTransitions ==
    [][call' = "toggle_modal" =>
          LET e == ret'.args
              was_open == paper_modal = "True"
              is_open == paper_modal' = "True"
          IN  /\ paper_modal' \in {"True", "False"}
              /\ e.triggered = "none" => ~is_open
              /\ DetailsClick(e) => is_open
              /\ e.triggered = "close-paper-modal" => ~is_open
              /\ (e.triggered = "publications-table" /\ ~DetailsClick(e)) =>
                     (is_open <=> was_open)
              /\ (~was_open /\ is_open) => DetailsClick(e)]_vars

\* The modal was open, a click on a cell of another column followed, and the
\* modal is still open.
C26_Witness ==
    /\ call = "toggle_modal" /\ rerun
    /\ ret.args.triggered = "publications-table"
    /\ ret.args.active_cell = Cell(MaxRow, "title")
    /\ ret.args.is_open = "True"
    /\ paper_modal = "True"


=============================================================================
